---- MODULE Spec2Model ----
(***************************************************************************)
(* Barcode Central: the print-job pipeline (print_job.py), the printer     *)
(* transport (printer_manager.py send_zpl) and the history store           *)
(* (history_manager.py), as state machines.                                *)
(*                                                                         *)
(* Conventions.  A message is a sequence of message parts (the parts of a  *)
(* "; ".join, or a prefix followed by the text of the exception it wraps). *)
(* A text is a record [kind, chars, len]: len is Python's len(), chars the *)
(* characters of a short text; kind "none" is Python's None.  Timestamps   *)
(* are integers ordered as the ISO-8601 strings are; 0 is the '' that      *)
(* entry.get('timestamp', '') yields for an entry without one.             *)
(***************************************************************************)
EXTENDS Integers, Sequences, FiniteSets, TLC

VARIABLES
    registry,       \* printers.json: the list under 'printers'
    templates,      \* templates_zpl/: template name -> file
    history,        \* history.json: the list under 'entries'
    pc,             \* position of the running call
    caller,         \* "job": PrintJob.execute(); "direct": send_zpl called directly
    job,            \* the PrintJob object's fields
    ret,            \* what execute() (or the direct send_zpl) returned
    validateRet,    \* what PrintJob.validate() returned
    renderRaw,      \* what TemplateManager.render_template produced
    previewRet,     \* outcome of generate_preview_image(): "skipped", "ok", "failed"
    sendArgs,       \* arguments of the send_zpl call in progress
    sendRet,        \* what send_zpl returned
    copy_num,       \* send_zpl's loop variable
    sockOpen,       \* sockets created and not yet closed
    socksCreated,   \* sockets created by the send_zpl call
    copiesDone,     \* copies whose connect and sendall both completed
    errorCopy,      \* copy (1-based) in which a socket call raised, 0 if none
    shutdownErrs,   \* shutdown(SHUT_WR) calls that raised
    sendCalls,      \* send_zpl calls made
    addCalls,       \* HistoryManager.add_entry calls made
    histBefore,     \* the history store when the call started
    max_entries,    \* HistoryManager.max_entries
    clock,          \* datetime.utcnow(), advancing
    added,          \* entries appended by successful add_entry calls, in order
    dropped,        \* entries the last add_entry rotated out
    addRet,         \* what the last add_entry returned
    query,          \* arguments of the last get_entries call
    page,           \* entries the last get_entries call returned
    total_count,    \* total_count the last get_entries call returned
    firstPage,      \* entries the get_entries call before the last returned
    firstTotal,     \* total_count the get_entries call before the last returned
    delete_id,      \* argument of the last delete_entry call
    deleteRet,      \* what the last delete_entry returned
    entryGot,       \* what get_entry(delete_id) returned after it: <<>> for None
    files,          \* the directory: path ("target", "tmp") -> inode, 0 when absent
    disk,           \* inode -> the chunks written to it
    docBefore,      \* what read_json returned before write_json started
    wpc,            \* position of write_json
    writeRet,       \* what write_json returned
    rpc,            \* position of read_json
    rfd,            \* inode the reader has open, 0 when none
    rbuf,           \* chunks the reader has read
    readRet,        \* what read_json returned
    printers_cache, \* PrinterManager._printers_cache: <<>> for None, else <<list>>
    regOp,          \* the last registry call: [op, id, data]
    regRet,         \* what the last registry call returned
    regBefore,      \* the registry file before the last call
    listBefore,     \* what list_printers() returned before the last call
    regCalls,       \* registry calls made
    template_files, \* templates directory: filename -> text of the file, as lines of tokens
    tplOp,          \* the last TemplateManager call and its arguments
    tplRet,         \* what it returned or raised
    tplBefore,      \* template_files when it was called
    tplCalls,       \* number of TemplateManager calls so far
    writers,        \* the add_entry calls racing on one history file: writer -> [pc, job_data, snapshot, entry, ret]
    events,         \* their loads and saves in the order they happened
    manager,        \* the PrinterManager instance the next registry call goes through
    regVia,         \* the instance the last registry call went through, 0 before any
    other_cache,    \* _printers_cache of the other PrinterManager instance on the same file
    sockErrs        \* the exceptions the socket calls of the current call raised: <<stage, kind>>

jobVars  == <<pc, caller, job, ret, validateRet, renderRaw, previewRet>>
sendVars == <<sendArgs, sendRet, copy_num, sockOpen, socksCreated, copiesDone,
              errorCopy, shutdownErrs, sendCalls, sockErrs>>
histVars == <<history, addCalls, histBefore, max_entries, clock, added, dropped,
              addRet>>
pageVars == <<query, page, total_count, firstPage, firstTotal>>
envVars  == <<registry, templates>>
deleteVars == <<delete_id, deleteRet, entryGot>>
readerVars == <<rpc, rfd, rbuf, readRet>>
fileVars == <<files, disk, docBefore, wpc, writeRet, readerVars>>
regVars  == <<printers_cache, regOp, regRet, regBefore, listBefore, regCalls>>
tplVars  == <<template_files, tplOp, tplRet, tplBefore, tplCalls>>
raceVars == <<writers, events>>
mgrVars  == <<other_cache, manager, regVia>>
extVars  == <<raceVars, mgrVars>>
opVars   == <<deleteVars, fileVars, regVars, tplVars, extVars>>
vars == <<jobVars, sendVars, histVars, pageVars, envVars, opVars>>

-----------------------------------------------------------------------------
(* Bounds of the model and constants of the program.                       *)

MaxRenderLen == 3           \* longest rendered template text explored
MAX_QUANTITY == 100         \* print_job.py:71, printer_manager.py:452
MAX_ZPL_LEN == 100000       \* printer_manager.py:467
DEFAULT_MAX_ENTRIES == 1000 \* history_manager.py:17
LIMIT_CAP == 500            \* history_manager.py:179
DocLen == 2                 \* chunks a JSON document is written in
MAX_PORT == 65535           \* printer_manager.py:132
MAX_INCHES == 30480         \* 12 inches in units of 1/2540 inch
MIN_INCHES == 254           \* 0.1 inch in units of 1/2540 inch
MAX_OCTET == 255            \* printer_manager.py:584
TOLERANCE == 254            \* 0.1 inch in units of 1/2540 inch
TOLERANCE_ERR == 6          \* the float 0.1 less a tenth, in 1e-18 inch

-----------------------------------------------------------------------------
(* Python values.                                                          *)

NoText == [kind |-> "none", chars |-> <<>>, len |-> 0]
Text(c) == [kind |-> "str", chars |-> c, len |-> Len(c)]
\* a text of n characters of which only the length is of interest
Blob(n) == [kind |-> "str", chars |-> <<"^">>, len |-> n]
\* Python truthiness of an optional string
Truthy(t) == t.kind = "str" /\ t.len > 0

IntQ(n) == [isint |-> TRUE, n |-> n]
NotAnInt == [isint |-> FALSE, n |-> 0]

\* dict.get(key, default)
DictGet(d, key, default) == IF key \in DOMAIN d THEN d[key] ELSE default

NoMsg == <<>>
Abs(i) == IF i < 0 THEN -i ELSE i

-----------------------------------------------------------------------------
(* Printer registry reads (printer_manager.py).                            *)

MinOf(S) == CHOOSE i \in S : \A j \in S : i <= j

\* _load_printers(): the cache when there is one, else the file
LoadPrinters(cache, file) == IF cache = <<>> THEN file ELSE cache[1]

\* list_printers()
Printers == LoadPrinters(printers_cache, registry)

PrinterIdx(printer_id) ==
    {i \in DOMAIN Printers : DictGet(Printers[i], "id", "") = printer_id}

\* get_printer() is None
NoPrinter(printer_id) == PrinterIdx(printer_id) = {}

\* get_printer(): the first record with that id
GetPrinter(printer_id) == Printers[MinOf(PrinterIdx(printer_id))]

PrinterEnabled(printer) == DictGet(printer, "enabled", TRUE)

-----------------------------------------------------------------------------
(* Label sizes (utils/unit_converter.py, utils/label_size.py).  Widths and *)
(* heights are in tenths of the unit; lengths compared in 1/2540 inch.     *)

BadSize == [ok |-> FALSE, width |-> 0, height |-> 0, unit |-> "inches"]
GoodSize(w, h, u) == [ok |-> TRUE, width |-> w, height |-> h, unit |-> u]

\* parse_size_string / LabelSize.from_string, on the size strings explored;
\* "0.05x6" is in inches and written in hundredths since 0.05 is no whole
\* number of tenths
ParseSize(s) ==
    CASE s = "4x6" -> GoodSize(40, 60, "inches")
      [] s = "100x150mm" -> GoodSize(1000, 1500, "mm")
      [] s = "0.05x6" -> GoodSize(5, 600, "inches/100")
      [] s = "8x10" -> GoodSize(80, 100, "inches")
      [] s = "4.1x6.1" -> GoodSize(41, 61, "inches")
      [] s = "3.9x5.9" -> GoodSize(39, 59, "inches")
      [] s = "101.6x152.4mm" -> GoodSize(1016, 1524, "mm")
      [] s = "20x20" -> GoodSize(200, 200, "inches")
      [] OTHER -> BadSize

\* LabelSize.to_inches, one dimension
ToInches(v, unit) ==
    IF unit = "mm" THEN v * 10
    ELSE IF unit = "inches/100" THEN (v * 254) \div 10
    ELSE v * 254

\* by how much the float of LabelSize.to_inches is off the length ToInches
\* gives, in 1e-18 inch (IEEE 754 double, round to nearest), for the
\* lengths explored; whole inches and 152.4 mm are exact
DoubleErr(v, unit) ==
    CASE unit = "inches" /\ v = 39 -> -89
      [] unit = "inches" /\ v = 41 -> -355
      [] unit = "inches" /\ v = 59 -> 355
      [] unit = "inches" /\ v = 61 -> -355
      [] unit = "mm" /\ v = 1016 -> -444
      [] unit = "mm" /\ v = 1000 -> 112
      [] unit = "mm" /\ v = 1500 -> 168
      [] OTHER -> 0

\* abs(x - y) <= tolerance on floats: x and y are lengths in 1/2540 inch
\* with their float errors ex and ey; the difference of two doubles this
\* close is exact, and the float 0.1 is TOLERANCE_ERR above a tenth
DiffWithinTolerance(x, ex, y, ey) ==
    LET up == x > y \/ (x = y /\ ex >= ey)
        d == IF up THEN x - y ELSE y - x
        e == IF up THEN ex - ey ELSE ey - ex
    IN  d < TOLERANCE \/ (d = TOLERANCE /\ e <= TOLERANCE_ERR)

\* LabelSize.is_compatible_with
IsCompatibleWith(a, b) ==
    /\ DiffWithinTolerance(ToInches(a.width, a.unit), DoubleErr(a.width, a.unit),
                           ToInches(b.width, b.unit), DoubleErr(b.width, b.unit))
    /\ DiffWithinTolerance(ToInches(a.height, a.unit), DoubleErr(a.height, a.unit),
                           ToInches(b.height, b.unit), DoubleErr(b.height, b.unit))

\* f"{v:.1f}" with '.0' removed, of a length in 1/2540 inch
InchStr(u) ==
    LET tenths == (u + 127) \div 254
    IN  IF tenths % 10 = 0 THEN ToString(tenths \div 10)
        ELSE ToString(tenths \div 10) \o "." \o ToString(tenths % 10)

\* the requested size as validate_printer_compatibility normalises it
LegacyStr(size) ==
    InchStr(ToInches(size.width, size.unit)) \o "x"
        \o InchStr(ToInches(size.height, size.unit))

SeqToSet(s) == {s[i] : i \in DOMAIN s}

\* validate_printer_compatibility(printer_id, label_size)
ValidatePrinterCompatibility(printer_id, label_size) ==
    IF NoPrinter(printer_id) THEN <<FALSE, <<"Printer not found">>>>
    ELSE LET printer == GetPrinter(printer_id)
             requested == ParseSize(label_size)
             v2 == DictGet(printer, "supported_sizes_v2", <<>>)
             legacy == DictGet(printer, "supported_sizes", <<>>)
         IN  IF ~PrinterEnabled(printer) THEN <<FALSE, <<"Printer is disabled">>>>
             ELSE IF ~requested.ok THEN <<FALSE, <<"Invalid label size format">>>>
             ELSE IF \E i \in DOMAIN v2 :
                        IsCompatibleWith(requested, GoodSize(v2[i].width,
                                                    v2[i].height, v2[i].unit))
                  THEN <<TRUE, <<"Printer is compatible">>>>
             ELSE IF LegacyStr(requested) \in SeqToSet(legacy)
                        \/ label_size \in SeqToSet(legacy)
                  THEN <<TRUE, <<"Printer is compatible">>>>
             ELSE <<FALSE, <<"Printer does not support label size">>>>

-----------------------------------------------------------------------------
(* Template store reads (template_manager.py).                             *)

TemplateExists(name) == name \in DOMAIN templates

\* get_template(name) of an existing template: the keys it builds
GetTemplate(name) ==
    LET f == templates[name]
    IN  [filename |-> name,
         name |-> name,
         description |-> "",
         size |-> f.size,
         variables |-> IF f.syntax_ok THEN f.vars ELSE {},
         content |-> f.out]

\* render_template(name, variables): the rendered text, or an exception
RenderTemplate(name, variables) ==
    IF ~TemplateExists(name) THEN [raised |-> TRUE, chars |-> <<>>]
    ELSE LET f == templates[name]
         IN  IF ~f.syntax_ok \/ ~(f.vars \subseteq variables)
             THEN [raised |-> TRUE, chars |-> <<>>]
             ELSE [raised |-> FALSE, chars |-> f.out]

-----------------------------------------------------------------------------
(* History store writes (history_manager.py).                              *)

\* s[start:] of Python, for any integer start
PySliceFrom(s, start) ==
    LET n == Len(s)
        a == IF start < 0 THEN (IF start + n < 0 THEN 0 ELSE start + n)
             ELSE (IF start > n THEN n ELSE start)
    IN  SubSeq(s, a + 1, n)

\* the entry add_entry builds from job_data: {'id': entry_id, **job_data}
MakeEntry(job_data, now, fresh_id) ==
    LET entry_id == DictGet(job_data, "id", fresh_id)
        stamped == IF "timestamp" \in DOMAIN job_data THEN job_data
                   ELSE job_data @@ [timestamp |-> now]
    IN  stamped @@ [id |-> entry_id]

\* a rotation that keeps the first max_entries entries
RotateKeepFirst(entries, max) ==
    IF Len(entries) > max THEN SubSeq(entries, 1, max) ELSE entries

\* the rotation of add_entry: entries[-max_entries:] once past the cap
Rotate(entries, max) ==
    IF Len(entries) > max THEN PySliceFrom(entries, -max) ELSE entries

\* the entries add_entry hands to _save_history
AddEntryStore(store, job_data, max, now, fresh_id) ==
    Rotate(Append(store, MakeEntry(job_data, now, fresh_id)), max)

-----------------------------------------------------------------------------
(* PrintJob (print_job.py).                                                *)

QuantityOk(q) == q.isint /\ q.n >= 1 /\ q.n <= MAX_QUANTITY

\* PrintJob.__init__
NewPrintJob(template_name, printer_id, variables, quantity, generate_preview, log_to_history) ==
    [job_id |-> "job-uuid",
     template_name |-> template_name,
     printer_id |-> printer_id,
     variables |-> variables,
     quantity |-> quantity,
     generate_preview |-> generate_preview,
     log_to_history |-> log_to_history,
     rendered_zpl |-> NoText,
     preview_filename |-> "None",
     status |-> "pending",
     error_message |-> NoMsg,
     timestamp |-> clock]

\* validate() without its check of the printer's enabled flag
ValidateJobNoEnabledCheck(j) ==
    LET qerr == IF QuantityOk(j.quantity) THEN <<>>
                ELSE <<"Quantity must be between 1 and 100">>
    IN  IF ~TemplateExists(j.template_name)
        THEN [raised |-> TRUE, ok |-> FALSE, msg |-> <<"Template not found">>]
        ELSE LET template == GetTemplate(j.template_name)
                 required_vars == DictGet(template, "variables", {})
                 Fail(m) == [raised |-> FALSE, ok |-> FALSE, msg |-> qerr \o m]
             IN  IF NoPrinter(j.printer_id) THEN Fail(<<"Printer not found">>)
                 ELSE IF ~(required_vars \subseteq j.variables)
                      THEN Fail(<<"Missing required variables">>)
                 ELSE IF qerr # <<>> THEN Fail(<<>>)
                 ELSE [raised |-> FALSE, ok |-> TRUE,
                       msg |-> <<"Validation successful">>]

\* PrintJob.validate(): [raised, ok, msg]; raised is get_template's
\* FileNotFoundError leaving validate()
ValidateJob(j) ==
    LET qerr == IF QuantityOk(j.quantity) THEN <<>>
                ELSE <<"Quantity must be between 1 and 100">>
    IN  IF ~TemplateExists(j.template_name)
        THEN [raised |-> TRUE, ok |-> FALSE, msg |-> <<"Template not found">>]
        ELSE LET template == GetTemplate(j.template_name)
                 label_size == DictGet(template, "label_size", "")
                 compat == ValidatePrinterCompatibility(j.printer_id, label_size)
                 required_vars == DictGet(template, "variables", {})
                 Fail(m) == [raised |-> FALSE, ok |-> FALSE, msg |-> qerr \o m]
             IN  IF NoPrinter(j.printer_id) THEN Fail(<<"Printer not found">>)
                 ELSE IF ~PrinterEnabled(GetPrinter(j.printer_id))
                      THEN Fail(<<"Printer is disabled">>)
                 ELSE IF label_size # "" /\ ~compat[1] THEN Fail(compat[2])
                 ELSE IF ~(required_vars \subseteq j.variables)
                      THEN Fail(<<"Missing required variables">>)
                 ELSE IF qerr # <<>> THEN Fail(<<>>)
                 ELSE [raised |-> FALSE, ok |-> TRUE,
                       msg |-> <<"Validation successful">>]

\* PrintJob.render(): success, result = render_template(...) unpacks the
\* returned string, which raises unless it has exactly two characters
RenderJob(j) ==
    LET r == RenderTemplate(j.template_name, j.variables)
    IN  IF r.raised
        THEN [ok |-> FALSE, msg |-> <<"Error rendering template", "TemplateError">>,
              zpl |-> NoText]
        ELSE IF Len(r.chars) # 2
        THEN [ok |-> FALSE, msg |-> <<"Error rendering template", "ValueError">>,
              zpl |-> NoText]
        ELSE [ok |-> TRUE, msg |-> NoMsg, zpl |-> Text(<<r.chars[2]>>)]

\* where execute() goes once its return value is fixed
LogOrDone(j) == IF j.log_to_history THEN "log" ELSE "done"

\* execute() treating a failed preview as a failed job
PreviewStepFatal(j, outcome) ==
    IF outcome = "ok"
    THEN [job |-> [j EXCEPT !.preview_filename = "preview.png"],
          next |-> "send_call", ret |-> <<>>]
    ELSE [job |-> [j EXCEPT !.status = "failed",
                            !.error_message = <<"Preview generation failed">>],
          next |-> LogOrDone(j),
          ret |-> <<FALSE, <<"Preview generation failed">>>>]

\* execute(), step 3: the job and the next position after a preview outcome
PreviewStep(j, outcome) ==
    [job |-> IF outcome = "ok" THEN [j EXCEPT !.preview_filename = "preview.png"]
             ELSE j,
     next |-> "send_call",
     ret |-> <<>>]

\* execute() without "self.status = 'success'"
AfterSendStatusKept(j, sret) ==
    IF ~sret[1]
    THEN [job |-> [j EXCEPT !.status = "failed", !.error_message = sret[2]],
          ret |-> <<FALSE, sret[2]>>]
    ELSE [job |-> j,
          ret |-> <<TRUE, <<"Successfully printed label(s)">>>>]

\* execute(), after send_zpl returned
AfterSend(j, sret) ==
    IF ~sret[1]
    THEN [job |-> [j EXCEPT !.status = "failed", !.error_message = sret[2]],
          ret |-> <<FALSE, sret[2]>>]
    ELSE [job |-> [j EXCEPT !.status = "success"],
          ret |-> <<TRUE, <<"Successfully printed label(s)">>>>]

\* the entry _log_to_history builds
JobEntry(j) ==
    [id |-> j.job_id,
     timestamp |-> j.timestamp,
     template |-> j.template_name,
     printer_id |-> j.printer_id,
     quantity |-> j.quantity.n,
     status |-> j.status,
     error_message |-> j.error_message,
     rendered_zpl |-> j.rendered_zpl,
     preview_filename |-> j.preview_filename]

-----------------------------------------------------------------------------
(* PrinterManager.send_zpl (printer_manager.py).                           *)

\* send_zpl without its size cap
SendValidateNoSizeCap(a) ==
    IF ~QuantityOk(a.quantity)
    THEN <<FALSE, <<"Quantity must be between 1 and 100">>>>
    ELSE IF NoPrinter(a.printer_id) THEN <<FALSE, <<"Printer not found">>>>
    ELSE IF ~PrinterEnabled(GetPrinter(a.printer_id))
         THEN <<FALSE, <<"Printer is disabled">>>>
    ELSE IF ~Truthy(a.zpl) THEN <<FALSE, <<"ZPL content cannot be empty">>>>
    ELSE <<TRUE, NoMsg>>

\* the checks send_zpl makes before any network activity
SendValidate(a) ==
    IF ~QuantityOk(a.quantity)
    THEN <<FALSE, <<"Quantity must be between 1 and 100">>>>
    ELSE IF NoPrinter(a.printer_id) THEN <<FALSE, <<"Printer not found">>>>
    ELSE IF ~PrinterEnabled(GetPrinter(a.printer_id))
         THEN <<FALSE, <<"Printer is disabled">>>>
    ELSE IF ~Truthy(a.zpl) THEN <<FALSE, <<"ZPL content cannot be empty">>>>
    ELSE IF a.zpl.len > MAX_ZPL_LEN THEN <<FALSE, <<"ZPL content too large">>>>
    ELSE <<TRUE, NoMsg>>

\* send_zpl with the except clause of socket.timeout left out
ClassifyNoTimeout(e) ==
    IF e \in {"timeout", "refused", "oserror"}
    THEN <<FALSE, <<"Failed to connect", e>>>>
    ELSE <<FALSE, <<"Unexpected error sending ZPL", e>>>>

\* the except clauses of send_zpl: what it returns for an exception
Classify(e) ==
    IF e = "timeout" THEN <<FALSE, <<"Connection timed out">>>>
    ELSE IF e \in {"refused", "oserror"} THEN <<FALSE, <<"Failed to connect", e>>>>
    ELSE <<FALSE, <<"Unexpected error sending ZPL", e>>>>

\* the except clauses of test_printer_connection
ClassifyTest(e) ==
    IF e = "timeout" THEN <<FALSE, <<"Connection timed out">>>>
    ELSE IF e \in {"refused", "oserror"} THEN <<FALSE, <<"Failed to connect", e>>>>
    ELSE <<FALSE, <<"Unexpected error testing connection", e>>>>

\* send_zpl letting a failed shutdown(SHUT_WR) leave the loop
NextStageShutdownFatal(stage, r) ==
    CASE stage = "settimeout" -> IF r = "ok" THEN "connect" ELSE "raise"
      [] stage = "connect" -> IF r = "ok" THEN "sendall" ELSE "raise"
      [] stage = "sendall" -> IF r = "ok" THEN "sleep" ELSE "raise"
      [] stage = "sleep" -> "shutdown"
      [] stage = "shutdown" -> IF r = "ok" THEN "close" ELSE "raise"

\* send_zpl closing the socket right after the settle delay
NextStageNoShutdown(stage, r) ==
    CASE stage = "settimeout" -> IF r = "ok" THEN "connect" ELSE "raise"
      [] stage = "connect" -> IF r = "ok" THEN "sendall" ELSE "raise"
      [] stage = "sendall" -> IF r = "ok" THEN "sleep" ELSE "raise"
      [] stage = "sleep" -> "close"
      [] stage = "shutdown" -> "close"

\* the stage after `stage` when its socket call had outcome r; "raise" when
\* the exception leaves the loop
NextStage(stage, r) ==
    CASE stage = "settimeout" -> IF r = "ok" THEN "connect" ELSE "raise"
      [] stage = "connect" -> IF r = "ok" THEN "sendall" ELSE "raise"
      [] stage = "sendall" -> IF r = "ok" THEN "sleep" ELSE "raise"
      [] stage = "sleep" -> "shutdown"
      [] stage = "shutdown" -> "close"

\* outcomes the socket calls of a stage can have
Outcomes(stage) ==
    CASE stage = "settimeout" -> {"ok", "oserror"}
      [] stage = "connect" -> {"ok", "timeout", "refused"}
      [] stage = "sendall" -> {"ok", "timeout", "oserror"}
      [] stage = "sleep" -> {"ok"}
      [] stage = "shutdown" -> {"ok", "oserror"}

\* the arguments execute() passes to send_zpl
SendArgsOf(j) ==
    [printer_id |-> j.printer_id, zpl |-> j.rendered_zpl, quantity |-> j.quantity]

\* send_zpl entered: validation, then the loop
SendEnter ==
    /\ pc = "send_call"
    /\ sendCalls' = sendCalls + 1
    /\ sendArgs' = IF caller = "job" THEN SendArgsOf(job) ELSE sendArgs
    /\ LET v == SendValidate(sendArgs')
       IN  IF v[1] THEN /\ pc' = "loop"
                        /\ sendRet' = <<>>
                   ELSE /\ pc' = "send_ret"
                        /\ sendRet' = v
    /\ copy_num' = 0
    /\ sockErrs' = {}
    /\ UNCHANGED <<sockOpen, socksCreated, copiesDone, errorCopy, shutdownErrs>>
    /\ UNCHANGED <<caller, job, ret, validateRet, renderRaw, previewRet>>
    /\ UNCHANGED <<histVars, pageVars, envVars, opVars>>

\* for copy_num in range(quantity): socket.socket(...)
CreateSocket ==
    /\ pc = "loop"
    /\ copy_num < sendArgs.quantity.n
    /\ \E r \in {"ok", "oserror"} :
         IF r = "ok"
         THEN /\ sockOpen' = sockOpen + 1
              /\ socksCreated' = socksCreated + 1
              /\ pc' = "settimeout"
              /\ UNCHANGED <<sendRet, errorCopy, sockErrs>>
         ELSE /\ sendRet' = Classify(r)
              /\ sockErrs' = sockErrs \cup {<<"socket", r>>}
              /\ errorCopy' = copy_num + 1
              /\ pc' = "send_ret"
              /\ UNCHANGED <<sockOpen, socksCreated>>
    /\ UNCHANGED <<sendArgs, copy_num, copiesDone, shutdownErrs, sendCalls>>
    /\ UNCHANGED <<caller, job, ret, validateRet, renderRaw, previewRet>>
    /\ UNCHANGED <<histVars, pageVars, envVars, opVars>>

\* an except clause that re-raises without sock.close()
RaiseWithoutClose(open) == open

\* except Exception: sock.close(); raise -- the sockets open afterwards
CloseAndRaise(open) == open - 1

\* settimeout, connect, sendall, the settle delay time.sleep(0.5),
\* shutdown(SHUT_WR); an exception closes the socket and leaves the loop
SocketCall ==
    /\ pc \in {"settimeout", "connect", "sendall", "sleep", "shutdown"}
    /\ \E r \in Outcomes(pc) :
         LET next == NextStage(pc, r)
         IN  /\ sockErrs' = IF r = "ok" THEN sockErrs
                            ELSE sockErrs \cup {<<pc, r>>}
             /\ IF next = "raise"
                THEN /\ sockOpen' = CloseAndRaise(sockOpen)
                     /\ errorCopy' = copy_num + 1
                     /\ sendRet' = Classify(r)
                     /\ pc' = "send_ret"
                     /\ UNCHANGED <<copiesDone, shutdownErrs>>
                ELSE /\ pc' = next
                     /\ copiesDone' = IF pc = "sendall" THEN copiesDone + 1
                                      ELSE copiesDone
                     /\ shutdownErrs' = IF pc = "shutdown" /\ r # "ok"
                                        THEN shutdownErrs + 1 ELSE shutdownErrs
                     /\ UNCHANGED <<sockOpen, errorCopy, sendRet>>
    /\ UNCHANGED <<sendArgs, copy_num, socksCreated, sendCalls>>
    /\ UNCHANGED <<caller, job, ret, validateRet, renderRaw, previewRet>>
    /\ UNCHANGED <<histVars, pageVars, envVars, opVars>>

\* sock.close() at the end of a copy
CloseSocket ==
    /\ pc = "close"
    /\ sockOpen' = sockOpen - 1
    /\ copy_num' = copy_num + 1
    /\ pc' = "loop"
    /\ UNCHANGED <<sendArgs, sendRet, socksCreated, copiesDone, errorCopy,
                   shutdownErrs, sendCalls, sockErrs>>
    /\ UNCHANGED <<caller, job, ret, validateRet, renderRaw, previewRet>>
    /\ UNCHANGED <<histVars, pageVars, envVars, opVars>>

\* the loop ran out: return True
SendLoopDone ==
    /\ pc = "loop"
    /\ copy_num >= sendArgs.quantity.n
    /\ sendRet' = <<TRUE, <<"Successfully sent label(s) to printer">>>>
    /\ pc' = "send_ret"
    /\ UNCHANGED <<sendArgs, copy_num, sockOpen, socksCreated, copiesDone,
                   errorCopy, shutdownErrs, sendCalls, sockErrs>>
    /\ UNCHANGED <<caller, job, ret, validateRet, renderRaw, previewRet>>
    /\ UNCHANGED <<histVars, pageVars, envVars, opVars>>

\* send_zpl returns to its caller; execute() sets the status from the result
SendReturn ==
    /\ pc = "send_ret"
    /\ IF caller = "job"
       THEN LET a == AfterSend(job, sendRet)
            IN  /\ job' = a.job
                /\ ret' = a.ret
                /\ pc' = LogOrDone(job)
       ELSE /\ ret' = sendRet
            /\ pc' = "done"
            /\ UNCHANGED job
    /\ UNCHANGED <<caller, validateRet, renderRaw, previewRet>>
    /\ UNCHANGED <<sendVars, histVars, pageVars, envVars, opVars>>

-----------------------------------------------------------------------------
(* PrintJob.execute(), step by step.                                       *)

NoJob == [job_id |-> "None"]
NoArgs == [printer_id |-> "", zpl |-> NoText, quantity |-> IntQ(0)]
NotRun == [ran |-> FALSE]

QuantityChoices ==
    {NotAnInt, IntQ(0), IntQ(1), IntQ(2), IntQ(MAX_QUANTITY), IntQ(MAX_QUANTITY + 1)}
\* the quantities a job is given: MAX_QUANTITY copies are sent by SpecSend
JobQuantityChoices == QuantityChoices \ {IntQ(MAX_QUANTITY)}
PrinterIds == {"p1", "p9"}
TemplateNames == {"t1", "t9"}
VariableSets == {{}, {"x"}}
ZplChoices ==
    {NoText, Text(<<>>), Text(<<"^">>), Blob(MAX_ZPL_LEN), Blob(MAX_ZPL_LEN + 1)}

\* the job is constructed and execute() called
StartJob ==
    /\ pc = "idle"
    /\ \E tn \in TemplateNames, pid \in PrinterIds, vs \in VariableSets,
          q \in JobQuantityChoices, gp \in BOOLEAN, lh \in BOOLEAN :
         job' = NewPrintJob(tn, pid, vs, q, gp, lh)
    /\ caller' = "job"
    /\ pc' = "validate"
    /\ histBefore' = history
    /\ UNCHANGED <<ret, validateRet, renderRaw, previewRet>>
    /\ UNCHANGED <<history, addCalls, max_entries, clock, added, dropped, addRet>>
    /\ UNCHANGED <<sendVars, pageVars, envVars, opVars>>

\* send_zpl called directly
StartSend ==
    /\ pc = "idle"
    /\ \E pid \in PrinterIds, z \in ZplChoices, q \in QuantityChoices :
         sendArgs' = [printer_id |-> pid, zpl |-> z, quantity |-> q]
    /\ caller' = "direct"
    /\ pc' = "send_call"
    /\ UNCHANGED <<job, ret, validateRet, renderRaw, previewRet>>
    /\ UNCHANGED <<sendRet, copy_num, sockOpen, socksCreated, copiesDone,
                   errorCopy, shutdownErrs, sendCalls, sockErrs>>
    /\ UNCHANGED <<histVars, pageVars, envVars, opVars>>

\* test_printer_connection(printer_id): socket(), settimeout, connect inside
\* one with statement, which closes the socket however it is left
TestPrinterConnection ==
    /\ pc = "idle"
    /\ \E pid \in PrinterIds :
         /\ sendArgs' = [sendArgs EXCEPT !.printer_id = pid]
         /\ IF NoPrinter(pid)
            THEN /\ sendRet' = <<FALSE, <<"Printer not found">>>>
                 /\ sockErrs' = {}
            ELSE \E stage \in {"socket", "settimeout", "connect"} :
                   \E r \in IF stage = "socket" THEN {"oserror"}
                            ELSE Outcomes(stage) :
                     IF r = "ok"
                     THEN /\ stage = "connect"
                          /\ sendRet' = <<TRUE, <<"Connection successful">>>>
                          /\ sockErrs' = {}
                     ELSE /\ sendRet' = ClassifyTest(r)
                          /\ sockErrs' = {<<stage, r>>}
    /\ ret' = sendRet'
    /\ caller' = "test"
    /\ pc' = "done"
    /\ UNCHANGED <<job, validateRet, renderRaw, previewRet>>
    /\ UNCHANGED <<copy_num, sockOpen, socksCreated, copiesDone, errorCopy,
                   shutdownErrs, sendCalls>>
    /\ UNCHANGED <<histVars, pageVars, envVars, opVars>>

\* execute(), step 1; an exception leaving validate() lands in execute()'s
\* except clause
Validate ==
    /\ pc = "validate"
    /\ LET v == ValidateJob(job)
           unexpected == <<"Unexpected error executing print job">> \o v.msg
       IN  /\ validateRet' = v @@ [ran |-> TRUE]
           /\ IF v.raised
              THEN /\ job' = [job EXCEPT !.status = "failed",
                                         !.error_message = unexpected]
                   /\ ret' = <<FALSE, unexpected>>
                   /\ pc' = LogOrDone(job)
              ELSE IF ~v.ok
              THEN /\ job' = [job EXCEPT !.status = "failed",
                                         !.error_message = v.msg]
                   /\ ret' = <<FALSE, v.msg>>
                   /\ pc' = LogOrDone(job)
              ELSE /\ pc' = "render"
                   /\ UNCHANGED <<job, ret>>
    /\ UNCHANGED <<caller, renderRaw, previewRet>>
    /\ UNCHANGED <<sendVars, histVars, pageVars, envVars, opVars>>

\* execute(), step 2
Render ==
    /\ pc = "render"
    /\ renderRaw' = RenderTemplate(job.template_name, job.variables) @@ [ran |-> TRUE]
    /\ LET r == RenderJob(job)
       IN  IF ~r.ok
           THEN /\ job' = [job EXCEPT !.status = "failed", !.error_message = r.msg]
                /\ ret' = <<FALSE, r.msg>>
                /\ pc' = LogOrDone(job)
           ELSE /\ job' = [job EXCEPT !.rendered_zpl = r.zpl]
                /\ pc' = IF job.generate_preview THEN "preview" ELSE "send_call"
                /\ UNCHANGED ret
    /\ UNCHANGED <<caller, validateRet, previewRet>>
    /\ UNCHANGED <<sendVars, histVars, pageVars, envVars, opVars>>

\* execute(), step 3: generate_preview_image(), whose renderer succeeds or not
Preview ==
    /\ pc = "preview"
    /\ \E o \in {"ok", "failed"} :
         LET outcome == IF Truthy(job.rendered_zpl) THEN o ELSE "failed"
             p == PreviewStep(job, outcome)
         IN  /\ previewRet' = outcome
             /\ job' = p.job
             /\ pc' = p.next
             /\ ret' = p.ret
    /\ UNCHANGED <<caller, validateRet, renderRaw>>
    /\ UNCHANGED <<sendVars, histVars, pageVars, envVars, opVars>>

\* _log_to_history(): get_template raising for a missing template is
\* swallowed by its except clause, before add_entry; the write may fail
LogToHistory ==
    /\ pc = "log"
    /\ IF ~TemplateExists(job.template_name)
       THEN UNCHANGED <<history, addCalls, addRet>>
       ELSE /\ addCalls' = addCalls + 1
            /\ \E written \in BOOLEAN :
                 /\ addRet' = <<written>>
                 /\ history' = IF written
                               THEN AddEntryStore(history, JobEntry(job),
                                                  max_entries, clock, "uuid")
                               ELSE history
    /\ pc' = "done"
    /\ UNCHANGED <<histBefore, max_entries, clock, added, dropped>>
    /\ UNCHANGED <<caller, job, ret, validateRet, renderRaw, previewRet>>
    /\ UNCHANGED <<sendVars, pageVars, envVars, opVars>>

-----------------------------------------------------------------------------
(* The stores a call can find, and the specification of one call.          *)

PrinterRec(enabled) ==
    [id |-> "p1", name |-> "Printer 1", ip |-> "10.0.0.1", port |-> 9100,
     supported_sizes |-> <<"4x6">>,
     supported_sizes_v2 |-> <<[width |-> 40, height |-> 60, unit |-> "inches"]>>,
     dpi |-> 203, enabled |-> enabled]

\* the first n characters of a label
LabelPrefix(n) == SubSeq(<<"^", "X", "A", "^", "X", "Z">>, 1, n)

TemplateFiles ==
    [size : {"", "4x6", "8x10"}, vars : VariableSets, syntax_ok : BOOLEAN,
     out : {LabelPrefix(n) : n \in 0..MaxRenderLen}]

OldEntry ==
    [id |-> "old-uuid", timestamp |-> 1, template |-> "t1", printer_id |-> "p1",
     quantity |-> 1, status |-> "success", error_message |-> NoMsg,
     rendered_zpl |-> Text(<<"A">>), preview_filename |-> "None"]

\* no store operation called yet
\* the templates directory of the calls that go through `templates`
NoTemplateDir == <<>>

NoOps ==
    /\ delete_id = ""
    /\ deleteRet = <<>>
    /\ entryGot = <<>>
    /\ printers_cache = <<>>
    /\ regOp = [op |-> "none", id |-> "", data |-> [none |-> TRUE]]
    /\ regRet = <<>>
    /\ regBefore = <<>>
    /\ listBefore = <<>>
    /\ regCalls = 0
    /\ tplOp = [op |-> "none"]
    /\ tplRet = <<>>
    /\ tplBefore = <<>>
    /\ tplCalls = 0
    /\ writers = [w \in 1..2 |-> [pc |-> "start"]]
    /\ events = <<>>
    /\ manager = 1
    /\ regVia = 0
    /\ sockErrs = {}

\* a document of DocLen chunks
Doc(tag) == [i \in 1..DocLen |-> <<tag, i>>]

\* `default` of read_json
DefaultDoc == <<<<"default", 0>>>>

\* no write_json or read_json running, the target holding a document
NoFileOps ==
    /\ files = [target |-> 1, tmp |-> 0]
    /\ disk = [i \in 1..2 |-> IF i = 1 THEN Doc("old") ELSE <<>>]
    /\ docBefore = Doc("old")
    /\ wpc = "idle"
    /\ writeRet = <<>>
    /\ rpc = "idle"
    /\ rfd = 0
    /\ rbuf = <<>>
    /\ readRet = <<>>

\* everything but the stores, before any call
Idle ==
    /\ pc = "idle"
    /\ caller = "none"
    /\ job = NoJob
    /\ ret = <<>>
    /\ validateRet = NotRun
    /\ renderRaw = NotRun
    /\ previewRet = "skipped"
    /\ sendArgs = NoArgs
    /\ sendRet = <<>>
    /\ copy_num = 0
    /\ sockOpen = 0
    /\ socksCreated = 0
    /\ copiesDone = 0
    /\ errorCopy = 0
    /\ shutdownErrs = 0
    /\ sendCalls = 0
    /\ addCalls = 0
    /\ histBefore = history
    /\ added = <<>>
    /\ dropped = <<>>
    /\ addRet = <<>>
    /\ query = <<>>
    /\ page = <<>>
    /\ total_count = 0
    /\ firstPage = <<>>
    /\ firstTotal = 0
    /\ NoOps

SendZpl ==
    \/ SendEnter
    \/ CreateSocket
    \/ SocketCall
    \/ CloseSocket
    \/ SendLoopDone
    \/ SendReturn

\* one PrintJob.execute() over any template store, registry and history
Init ==
    /\ registry \in {<<PrinterRec(e)>> : e \in BOOLEAN}
    /\ templates \in {[n \in {"t1"} |-> f] : f \in TemplateFiles}
    /\ history \in {<<>>, <<OldEntry>>}
    /\ max_entries = DEFAULT_MAX_ENTRIES
    /\ clock = 2
    /\ Idle
    /\ template_files = NoTemplateDir
    /\ other_cache = <<>>
    /\ NoFileOps

Next ==
    \/ StartJob
    \/ Validate
    \/ Render
    \/ Preview
    \/ SendZpl
    \/ LogToHistory

Spec == Init /\ [][Next]_vars

\* one direct send_zpl call over any registry
InitSend ==
    /\ registry \in {<<PrinterRec(e)>> : e \in BOOLEAN}
    /\ templates = [n \in {"t1"} |->
                      [size |-> "4x6", vars |-> {}, syntax_ok |-> TRUE,
                       out |-> LabelPrefix(MaxRenderLen)]]
    /\ history = <<>>
    /\ max_entries = DEFAULT_MAX_ENTRIES
    /\ clock = 2
    /\ Idle
    /\ template_files = NoTemplateDir
    /\ other_cache = <<>>
    /\ NoFileOps

NextSend ==
    \/ StartSend
    \/ SendZpl
    \/ TestPrinterConnection

SpecSend == InitSend /\ [][NextSend]_vars

-----------------------------------------------------------------------------
(* HistoryManager.add_entry called repeatedly on one store.                *)

MaxEntries == 2
MaxAdds == 3
MaxTs == 2

HistEntry(id, ts) == [id |-> id, timestamp |-> ts, status |-> "success"]

\* str(uuid.uuid4()): a new id at every call
FreshId == "uuid-" \o ToString(addCalls + 1)

\* job_data of a caller: 'id' and 'timestamp' are optional
JobDataChoices ==
    LET base == [status |-> "success"]
    IN  {base, base @@ [id |-> "a"]}
          \cup {base @@ [timestamp |-> t] : t \in 1..MaxTs}
          \cup {base @@ [id |-> "a", timestamp |-> t] : t \in 1..MaxTs}

\* add_entry(job_data): load, append, rotate, save; a failed save leaves
\* the file as it was
AddEntry ==
    /\ pc = "idle"
    /\ addCalls < MaxAdds
    /\ \E job_data \in JobDataChoices, written \in BOOLEAN :
         LET entry == MakeEntry(job_data, clock, FreshId)
             appended == Append(history, entry)
             kept == AddEntryStore(history, job_data, max_entries, clock, FreshId)
         IN  /\ history' = IF written THEN kept ELSE history
             /\ addRet' = <<written>>
             /\ added' = IF written THEN Append(added, entry) ELSE added
             /\ dropped' = IF written
                           THEN SubSeq(appended, 1, Len(appended) - Len(kept))
                           ELSE <<>>
    /\ addCalls' = addCalls + 1
    /\ clock' = clock + 1
    /\ UNCHANGED <<histBefore, max_entries>>
    /\ UNCHANGED <<jobVars, sendVars, pageVars, envVars, opVars>>

InitHist ==
    /\ registry = <<PrinterRec(TRUE)>>
    /\ templates = [n \in {"t1"} |->
                      [size |-> "4x6", vars |-> {}, syntax_ok |-> TRUE,
                       out |-> LabelPrefix(MaxRenderLen)]]
    /\ history \in {<<>>, <<HistEntry("old-1", 1)>>,
                    <<HistEntry("old-1", 1), HistEntry("old-2", 2)>>}
    /\ max_entries \in 1..MaxEntries
    /\ clock = MaxTs + 1
    /\ Idle
    /\ template_files = NoTemplateDir
    /\ other_cache = <<>>
    /\ NoFileOps

NextHist == AddEntry

SpecHist == InitHist /\ [][NextHist]_vars

-----------------------------------------------------------------------------
(* HistoryManager.get_entries (history_manager.py), and two successive     *)
(* pages read from one store.                                              *)

\* s[start:stop] of Python, for any integers start and stop
PySlice(s, start, stop) ==
    LET n == Len(s)
        Norm(i) == IF i < 0 THEN (IF i + n < 0 THEN 0 ELSE i + n)
                   ELSE (IF i > n THEN n ELSE i)
    IN  SubSeq(s, Norm(start) + 1, Norm(stop))

\* the sort key: x.get('timestamp', ''); 0 stands for ''
TsOf(e) == DictGet(e, "timestamp", 0)

\* the filter loop of get_entries: TRUE when the entry is kept; '' stands
\* for an absent string filter and 0 for an absent date
Matches(entry, q) ==
    /\ ~(q.template # "" /\ DictGet(entry, "template", "None") # q.template)
    /\ ~(q.printer_id # "" /\ DictGet(entry, "printer_id", "None") # q.printer_id)
    /\ ~(q.status # "" /\ DictGet(entry, "status", "None") # q.status)
    /\ (q.start_date # 0 \/ q.end_date # 0)
          => /\ ~(q.start_date # 0 /\ TsOf(entry) < q.start_date)
             /\ ~(q.end_date # 0 /\ TsOf(entry) > q.end_date)

\* the entries with timestamp t, then those with t-1, ... down to 0, each
\* group in the order of `entries`
RECURSIVE NewestFirstFrom(_, _)
NewestFirstFrom(entries, t) ==
    IF t < 0 THEN <<>>
    ELSE SelectSeq(entries, LAMBDA e : TsOf(e) = t)
            \o NewestFirstFrom(entries, t - 1)

\* the latest timestamp among entries
LatestTs(entries) ==
    LET stamps == {TsOf(entries[i]) : i \in 1..Len(entries)}
    IN  IF stamps = {} THEN 0 ELSE CHOOSE t \in stamps : \A u \in stamps : u <= t

\* a sort that puts ties in reverse stored order (sort ascending, reverse)
RECURSIVE OldestLastFrom(_, _)
OldestLastFrom(entries, t) ==
    IF t < 0 THEN <<>>
    ELSE LET same == SelectSeq(entries, LAMBDA e : TsOf(e) = t)
         IN  [i \in 1..Len(same) |-> same[Len(same) + 1 - i]]
                \o OldestLastFrom(entries, t - 1)

SortTiesReversed(entries) == OldestLastFrom(entries, LatestTs(entries))

\* filtered_entries.sort(key=..., reverse=True): stable, newest first
SortNewestFirst(entries) == NewestFirstFrom(entries, LatestTs(entries))

\* get_entries: <<paginated_entries, total_count>>
GetEntries(entries, q) ==
    LET filtered_entries == SortNewestFirst(
                                SelectSeq(entries, LAMBDA e : Matches(e, q)))
        limit == IF q.limit < LIMIT_CAP THEN q.limit ELSE LIMIT_CAP
    IN  <<PySlice(filtered_entries, q.offset, q.offset + limit),
          Len(filtered_entries)>>

MaxStore == 3

\* what stored entries can look like; the last has no 'timestamp'
EntryKinds ==
    << [timestamp |-> 1, template |-> "t1", printer_id |-> "p1", status |-> "success"],
       [timestamp |-> 2, template |-> "t1", printer_id |-> "p1", status |-> "failed"],
       [timestamp |-> 1, template |-> "t2", printer_id |-> "p2", status |-> "success"],
       [template |-> "t1", printer_id |-> "p1", status |-> "success"] >>

\* a store whose i-th entry is of kind kinds[i]; `pos` records where in the
\* file the entry stands
StoreOf(kinds) ==
    [i \in 1..Len(kinds) |->
        EntryKinds[kinds[i]] @@ [id |-> "h-" \o ToString(i), pos |-> i]]

SmallStores ==
    UNION {{StoreOf(k) : k \in [1..n -> 1..Len(EntryKinds)]} : n \in 0..MaxStore}

\* a store with more entries than a page can hold
BigStore == StoreOf([i \in 1..(LIMIT_CAP + 1) |-> (i % Len(EntryKinds)) + 1])

Limits == {1, 2, LIMIT_CAP, LIMIT_CAP + 1}
Offsets == {0, 1, 2}

NoFilter ==
    [template |-> "", printer_id |-> "", status |-> "", start_date |-> 0,
     end_date |-> 0]

FilterChoices ==
    {NoFilter,
     [NoFilter EXCEPT !.template = "t1"],
     [NoFilter EXCEPT !.printer_id = "p2"],
     [NoFilter EXCEPT !.status = "failed"],
     [NoFilter EXCEPT !.start_date = 2],
     [NoFilter EXCEPT !.end_date = 1]}

\* get_entries(limit, offset, filters) on the store
GetEntriesCall ==
    /\ pc = "idle"
    /\ \E limit \in Limits, offset \in Offsets, f \in FilterChoices :
         LET q == f @@ [limit |-> limit, offset |-> offset]
             r == GetEntries(history, q)
         IN  /\ query' = q
             /\ page' = r[1]
             /\ total_count' = r[2]
    /\ pc' = "paged"
    /\ UNCHANGED <<firstPage, firstTotal>>
    /\ UNCHANGED <<caller, job, ret, validateRet, renderRaw, previewRet>>
    /\ UNCHANGED <<sendVars, histVars, envVars, opVars>>

\* get_entries again with the same limit and filters, at offset + limit
GetNextPage ==
    /\ pc = "paged"
    /\ LET q == [query EXCEPT !.offset = query.offset + query.limit]
           r == GetEntries(history, q)
       IN  /\ query' = q
           /\ page' = r[1]
           /\ total_count' = r[2]
    /\ firstPage' = page
    /\ firstTotal' = total_count
    /\ pc' = "paged2"
    /\ UNCHANGED <<caller, job, ret, validateRet, renderRaw, previewRet>>
    /\ UNCHANGED <<sendVars, histVars, envVars, opVars>>

InitPage ==
    /\ registry = <<PrinterRec(TRUE)>>
    /\ templates = [n \in {"t1"} |->
                      [size |-> "4x6", vars |-> {}, syntax_ok |-> TRUE,
                       out |-> LabelPrefix(MaxRenderLen)]]
    /\ history \in SmallStores \cup {BigStore}
    /\ max_entries = DEFAULT_MAX_ENTRIES
    /\ clock = MaxTs + 1
    /\ Idle
    /\ template_files = NoTemplateDir
    /\ other_cache = <<>>
    /\ NoFileOps

NextPage ==
    \/ GetEntriesCall
    \/ GetNextPage

SpecPage == InitPage /\ [][NextPage]_vars

-----------------------------------------------------------------------------
(* HistoryManager.delete_entry followed by get_entry of the same id.       *)

\* get_entry: <<entry>> for the first entry with the id, <<>> for None
GetEntry(entries, id) ==
    LET hits == SelectSeq(entries, LAMBDA e : DictGet(e, "id", "None") = id)
    IN  IF hits = <<>> THEN <<>> ELSE <<hits[1]>>

\* a delete_entry that removes only the first entry with the id
RemoveFirstWithId(entries, id) ==
    LET at == {i \in 1..Len(entries) : DictGet(entries[i], "id", "None") = id}
        first == CHOOSE i \in at : \A k \in at : i <= k
    IN  IF at = {} THEN entries
        ELSE SubSeq(entries, 1, first - 1) \o SubSeq(entries, first + 1, Len(entries))

\* [e for e in entries if e.get('id') != entry_id]
RemoveWithId(entries, id) ==
    SelectSeq(entries, LAMBDA e : DictGet(e, "id", "None") # id)

\* stored entries to delete from: two share the id "a", one has no 'id'
DeleteKinds ==
    << [id |-> "a", timestamp |-> 1, status |-> "success"],
       [id |-> "b", timestamp |-> 1, status |-> "failed"],
       [id |-> "a", timestamp |-> 2, status |-> "success"],
       [timestamp |-> 1, status |-> "success"] >>

DeleteStores ==
    UNION {{[i \in 1..n |-> DeleteKinds[k[i]]] : k \in [1..n -> 1..Len(DeleteKinds)]}
             : n \in 0..MaxStore}

EntryIds == {"a", "b", "zz"}

\* delete_entry(delete_id): a failed save leaves the file as it was
DeleteEntry ==
    /\ pc = "idle"
    /\ \E id \in EntryIds, written \in BOOLEAN :
         LET entries == RemoveWithId(history, id)
         IN  /\ delete_id' = id
             /\ IF Len(entries) = Len(history)
                THEN /\ deleteRet' = <<FALSE, "Entry not found">>
                     /\ history' = history
                ELSE IF written
                THEN /\ deleteRet' = <<TRUE, "Entry deleted successfully">>
                     /\ history' = entries
                ELSE /\ deleteRet' = <<FALSE, "Failed to save history">>
                     /\ history' = history
    /\ pc' = "deleted"
    /\ UNCHANGED <<addCalls, histBefore, max_entries, clock, added, dropped, addRet>>
    /\ UNCHANGED <<caller, job, ret, validateRet, renderRaw, previewRet>>
    /\ UNCHANGED <<sendVars, pageVars, envVars, entryGot, fileVars, regVars, tplVars,
                   extVars>>

\* get_entry(delete_id) after the delete
GetEntryCall ==
    /\ pc = "deleted"
    /\ entryGot' = GetEntry(history, delete_id)
    /\ pc' = "looked_up"
    /\ UNCHANGED <<caller, job, ret, validateRet, renderRaw, previewRet>>
    /\ UNCHANGED <<sendVars, histVars, pageVars, envVars, delete_id, deleteRet>>
    /\ UNCHANGED <<fileVars, regVars, tplVars, extVars>>

InitDelete ==
    /\ registry = <<PrinterRec(TRUE)>>
    /\ templates = [n \in {"t1"} |->
                      [size |-> "4x6", vars |-> {}, syntax_ok |-> TRUE,
                       out |-> LabelPrefix(MaxRenderLen)]]
    /\ history \in DeleteStores
    /\ max_entries = DEFAULT_MAX_ENTRIES
    /\ clock = MaxTs + 1
    /\ Idle
    /\ template_files = NoTemplateDir
    /\ other_cache = <<>>
    /\ NoFileOps

NextDelete ==
    \/ DeleteEntry
    \/ GetEntryCall

SpecDelete == InitDelete /\ [][NextDelete]_vars

-----------------------------------------------------------------------------
(* write_json replacing a document while read_json reads the same path     *)
(* (utils/json_storage.py).                                                *)

\* a write that opens the target path itself for writing
OpenTargetForWrite(target_inode, fresh_inode) ==
    IF target_inode = 0 THEN fresh_inode ELSE target_inode

\* tempfile.NamedTemporaryFile('w', delete=False, dir=...): a new file
NamedTemporaryFile(target_inode, fresh_inode) == fresh_inode

\* json.load of what was read: text that is no whole document does not
\* parse and read_json returns its default
JsonLoad(chunks) == IF Len(chunks) = DocLen THEN chunks ELSE DefaultDoc

\* write_json fails here: IOError, OSError or TypeError before tmp_filename
\* is bound, so the except clause removes nothing
WriteFails ==
    /\ wpc' = "failed"
    /\ writeRet' = <<FALSE>>

nonFileVars == <<jobVars, sendVars, histVars, pageVars, envVars, deleteVars,
                 regVars, tplVars, extVars>>

\* os.makedirs(..., exist_ok=True)
WriteMakedirs ==
    /\ wpc = "start"
    /\ \/ /\ wpc' = "create"
          /\ UNCHANGED writeRet
       \/ WriteFails
    /\ UNCHANGED <<files, disk, docBefore, readerVars, nonFileVars>>

\* the temporary file is created empty in the directory of the target
WriteCreateTemp ==
    /\ wpc = "create"
    /\ \/ /\ wpc' = "dump"
          /\ files' = [files EXCEPT !.tmp = NamedTemporaryFile(files.target, 2)]
          /\ disk' = [disk EXCEPT ![NamedTemporaryFile(files.target, 2)] = <<>>]
          /\ UNCHANGED writeRet
       \/ /\ WriteFails
          /\ UNCHANGED <<files, disk>>
    /\ UNCHANGED <<docBefore, readerVars, nonFileVars>>

\* json.dump(data, tmp_file): the document reaches the file chunk by chunk
WriteDump ==
    /\ wpc = "dump"
    /\ \/ /\ Len(disk[files.tmp]) < DocLen
          /\ disk' = [disk EXCEPT ![files.tmp] =
                         Append(@, Doc("new")[Len(@) + 1])]
          /\ UNCHANGED <<wpc, writeRet>>
       \/ /\ Len(disk[files.tmp]) = DocLen
          /\ wpc' = "flush"
          /\ UNCHANGED <<disk, writeRet>>
       \/ /\ Len(disk[files.tmp]) < DocLen
          /\ WriteFails
          /\ UNCHANGED disk
    /\ UNCHANGED <<files, docBefore, readerVars, nonFileVars>>

\* tmp_file.flush(), os.fsync(...), tmp_filename = tmp_file.name, close
WriteFlush ==
    /\ wpc = "flush"
    /\ \/ /\ wpc' = "move"
          /\ UNCHANGED writeRet
       \/ WriteFails
    /\ UNCHANGED <<files, disk, docBefore, readerVars, nonFileVars>>

\* shutil.move(tmp_filename, filepath): a rename within one directory; when
\* it fails the except clause removes the temporary file
WriteMove ==
    /\ wpc = "move"
    /\ \/ /\ files' = [target |-> files.tmp, tmp |-> 0]
          /\ wpc' = "done"
          /\ writeRet' = <<TRUE>>
       \/ /\ files' = [files EXCEPT !.tmp = 0]
          /\ WriteFails
    /\ UNCHANGED <<disk, docBefore, readerVars, nonFileVars>>

\* read_json: os.path.exists(filepath)
ReadExists ==
    /\ rpc = "start"
    /\ IF files.target = 0
       THEN /\ rpc' = "done"
            /\ readRet' = <<DefaultDoc>>
       ELSE /\ rpc' = "open"
            /\ UNCHANGED readRet
    /\ UNCHANGED <<files, disk, docBefore, wpc, writeRet, rfd, rbuf, nonFileVars>>

\* open(filepath, 'r'): the reader holds the file the path names now
ReadOpen ==
    /\ rpc = "open"
    /\ rfd' = files.target
    /\ rpc' = "read"
    /\ UNCHANGED <<files, disk, docBefore, wpc, writeRet, rbuf, readRet, nonFileVars>>

\* json.load(f): read to end of file, then parse
ReadLoad ==
    /\ rpc = "read"
    /\ IF Len(rbuf) < Len(disk[rfd])
       THEN /\ rbuf' = Append(rbuf, disk[rfd][Len(rbuf) + 1])
            /\ UNCHANGED <<rpc, readRet>>
       ELSE /\ rpc' = "done"
            /\ readRet' = <<JsonLoad(rbuf)>>
            /\ UNCHANGED rbuf
    /\ UNCHANGED <<files, disk, docBefore, wpc, writeRet, rfd, nonFileVars>>

\* one write_json and one read_json of the same path, started at any time;
\* the target holds a document or does not exist yet
InitFile ==
    /\ registry = <<PrinterRec(TRUE)>>
    /\ templates = [n \in {"t1"} |->
                      [size |-> "4x6", vars |-> {}, syntax_ok |-> TRUE,
                       out |-> LabelPrefix(MaxRenderLen)]]
    /\ history = <<>>
    /\ max_entries = DEFAULT_MAX_ENTRIES
    /\ clock = MaxTs + 1
    /\ Idle
    /\ template_files = NoTemplateDir
    /\ other_cache = <<>>
    /\ \E exists \in BOOLEAN :
         /\ files = [target |-> IF exists THEN 1 ELSE 0, tmp |-> 0]
         /\ disk = [i \in 1..2 |-> IF i = 1 /\ exists THEN Doc("old") ELSE <<>>]
         /\ docBefore = IF exists THEN Doc("old") ELSE DefaultDoc
    /\ wpc = "start"
    /\ writeRet = <<>>
    /\ rpc = "start"
    /\ rfd = 0
    /\ rbuf = <<>>
    /\ readRet = <<>>

NextFile ==
    \/ WriteMakedirs
    \/ WriteCreateTemp
    \/ WriteDump
    \/ WriteFlush
    \/ WriteMove
    \/ ReadExists
    \/ ReadOpen
    \/ ReadLoad

SpecFile == InitFile /\ [][NextFile]_vars

-----------------------------------------------------------------------------
(* PrinterManager.add_printer, update_printer, delete_printer and          *)
(* list_printers on one PrinterManager (printer_manager.py).               *)

MaxRegCalls == 2

\* the value of supported_sizes in printer_data: a list or something else
SizeList(items) == [islist |-> TRUE, items |-> items]
NotAList == [islist |-> FALSE, items |-> <<>>]

\* the characters of the printer ids explored
IdChars(id) ==
    CASE id = "p1" -> <<"p", "1">>
      [] id = "p2" -> <<"p", "2">>
      [] id = "p9" -> <<"p", "9">>
      [] id = "lab_2-b" -> <<"l", "a", "b", "_", "2", "-", "b">>
      [] id = "bad id!" -> <<"b", "a", "d", " ", "i", "d", "!">>
      [] id = "--" -> <<"-", "-">>
      [] OTHER -> <<>>

Alnum == {"p", "l", "a", "b", "d", "i", "1", "2", "9"}

\* printer_id.replace('-', '').replace('_', '').isalnum()
IdCharsetOk(id) ==
    LET rest == SelectSeq(IdChars(id), LAMBDA c : c \notin {"-", "_"})
    IN  rest # <<>> /\ \A i \in 1..Len(rest) : rest[i] \in Alnum

\* ip.split('.') with int() of each part, for the addresses explored
IpParts(ip) ==
    CASE ip = "10.0.0.1" -> <<10, 0, 0, 1>>
      [] ip = "10.0.0.2" -> <<10, 0, 0, 2>>
      [] ip = "300.0.0.1" -> <<300, 0, 0, 1>>
      [] ip = "10.0.0" -> <<10, 0, 0>>
      [] OTHER -> <<>>

\* _validate_ip
ValidateIp(ip) ==
    /\ ip # ""
    /\ Len(IpParts(ip)) = 4
    /\ \A i \in 1..Len(IpParts(ip)) : IpParts(ip)[i] >= 0 /\ IpParts(ip)[i] <= MAX_OCTET

\* a port check that only rejects ports below 1
PortOkNoUpperBound(port) == port.isint /\ port.n >= 1

\* isinstance(port, int) and 1 <= port <= 65535
PortOk(port) == port.isint /\ port.n >= 1 /\ port.n <= MAX_PORT

\* isinstance(dpi, int) and dpi > 0
DpiOk(dpi) == dpi.isint /\ dpi.n > 0

\* validate_label_size_with_unit: parses, and 0.1 <= each dimension <= 12 in
WithUnitOk(s) ==
    LET p == ParseSize(s)
    IN  /\ s # ""
        /\ p.ok
        /\ ToInches(p.width, p.unit) >= MIN_INCHES
        /\ ToInches(p.width, p.unit) <= MAX_INCHES
        /\ ToInches(p.height, p.unit) >= MIN_INCHES
        /\ ToInches(p.height, p.unit) <= MAX_INCHES

\* validate_label_size: 'WxH' without unit, 0 < each dimension <= 12
ValidateLabelSize(s) ==
    LET p == ParseSize(s)
    IN  /\ s \in {"4x6", "8x10", "4.1x6.1", "3.9x5.9", "20x20", "0.05x6"}
        /\ p.width > 0 /\ ToInches(p.width, p.unit) <= MAX_INCHES
        /\ p.height > 0 /\ ToInches(p.height, p.unit) <= MAX_INCHES

\* an item of supported_sizes that is neither a str nor a dict (the int 123)
NotStrOrDict == "<int 123>"

\* the size loop of update_printer: as that of add_printer, without the
\* final else, so an item that is neither str nor dict is passed over
RECURSIVE ProcessSizesUpdate(_)
ProcessSizesUpdate(items) ==
    IF items = <<>> THEN [ok |-> TRUE, v2 |-> <<>>, legacy |-> <<>>]
    ELSE LET size == Head(items)
             p == ParseSize(size)
             rest == ProcessSizesUpdate(Tail(items))
         IN  IF size = NotStrOrDict
             THEN rest
             ELSE IF WithUnitOk(size)
             THEN [ok |-> rest.ok,
                   v2 |-> <<[width |-> p.width, height |-> p.height,
                             unit |-> p.unit]>> \o rest.v2,
                   legacy |-> <<LegacyStr(p)>> \o rest.legacy]
             ELSE IF ValidateLabelSize(size)
             THEN [ok |-> rest.ok, v2 |-> rest.v2,
                   legacy |-> <<size>> \o rest.legacy]
             ELSE [ok |-> FALSE, v2 |-> <<>>, legacy |-> <<>>]

\* the size loop of add_printer over a list of strings and non-strings:
\* [ok, v2, legacy]
RECURSIVE ProcessSizes(_)
ProcessSizes(items) ==
    IF items = <<>> THEN [ok |-> TRUE, v2 |-> <<>>, legacy |-> <<>>]
    ELSE LET size == Head(items)
             p == ParseSize(size)
             rest == ProcessSizes(Tail(items))
         IN  IF size = NotStrOrDict
             THEN [ok |-> FALSE, v2 |-> <<>>, legacy |-> <<>>]
             ELSE IF WithUnitOk(size)
             THEN [ok |-> rest.ok,
                   v2 |-> <<[width |-> p.width, height |-> p.height,
                             unit |-> p.unit]>> \o rest.v2,
                   legacy |-> <<LegacyStr(p)>> \o rest.legacy]
             ELSE IF ValidateLabelSize(size)
             THEN [ok |-> rest.ok, v2 |-> rest.v2,
                   legacy |-> <<size>> \o rest.legacy]
             ELSE [ok |-> FALSE, v2 |-> <<>>, legacy |-> <<>>]

\* supported_sizes is a non-empty list whose every size is valid
SizesOk(sizes) ==
    sizes.islist /\ sizes.items # <<>> /\ ProcessSizes(sizes.items).ok

RequiredFields == <<"id", "name", "ip", "port", "supported_sizes", "dpi">>

\* the record with the first id in a list, as get_printer finds it
HasPrinter(printers, id) ==
    \E i \in 1..Len(printers) : DictGet(printers[i], "id", "None") = id

\* the validation of add_printer: [ok, msg, loaded]; loaded says whether
\* get_printer, and so _load_printers, was called
ValidateAdd(d, printers) ==
    LET Fail(m, l) == [ok |-> FALSE, msg |-> m, loaded |-> l]
    IN  IF \E i \in 1..Len(RequiredFields) : RequiredFields[i] \notin DOMAIN d
        THEN Fail("Missing required field", FALSE)
        ELSE IF d.id = "" THEN Fail("Printer ID must be a non-empty string", FALSE)
        ELSE IF ~IdCharsetOk(d.id) THEN Fail("Printer ID charset", FALSE)
        ELSE IF HasPrinter(printers, d.id) THEN Fail("Printer already exists", TRUE)
        ELSE IF ~ValidateIp(d.ip) THEN Fail("Invalid IP address", TRUE)
        ELSE IF ~PortOk(d.port) THEN Fail("Port must be between 1 and 65535", TRUE)
        ELSE IF ~(d.supported_sizes.islist /\ d.supported_sizes.items # <<>>)
             THEN Fail("supported_sizes must be a non-empty list", TRUE)
        ELSE IF ~ProcessSizes(d.supported_sizes.items).ok
             THEN Fail("Invalid label size", TRUE)
        ELSE IF ~DpiOk(d.dpi) THEN Fail("DPI must be a positive integer", TRUE)
        ELSE [ok |-> TRUE, msg |-> "", loaded |-> TRUE]

\* the fields validation has normalised, as they are stored
Normalised(d) ==
    LET sizes == ProcessSizes(d.supported_sizes.items)
    IN  (IF "supported_sizes" \in DOMAIN d
         THEN [supported_sizes |-> sizes.legacy, supported_sizes_v2 |-> sizes.v2]
         ELSE <<>>)
        @@ (IF "port" \in DOMAIN d THEN [port |-> d.port.n] ELSE <<>>)
        @@ (IF "dpi" \in DOMAIN d THEN [dpi |-> d.dpi.n] ELSE <<>>)

\* printer_data as update_printer rewrites it before the merge
NormalisedUpdate(d) ==
    LET sizes == ProcessSizesUpdate(d.supported_sizes.items)
    IN  (IF "supported_sizes" \in DOMAIN d
         THEN [supported_sizes |-> sizes.legacy, supported_sizes_v2 |-> sizes.v2]
         ELSE <<>>)
        @@ (IF "port" \in DOMAIN d THEN [port |-> d.port.n] ELSE <<>>)
        @@ (IF "dpi" \in DOMAIN d THEN [dpi |-> d.dpi.n] ELSE <<>>)

\* printer_data as add_printer appends it
StoredPrinter(d) ==
    Normalised(d) @@ d @@ [enabled |-> TRUE, default_unit |-> "inches"]

\* the validation of update_printer: only the fields data carries
ValidateUpdate(d) ==
    LET Fail(m) == [ok |-> FALSE, msg |-> m]
    IN  IF "ip" \in DOMAIN d /\ ~ValidateIp(d.ip) THEN Fail("Invalid IP address")
        ELSE IF "port" \in DOMAIN d /\ ~PortOk(d.port)
             THEN Fail("Port must be between 1 and 65535")
        ELSE IF "supported_sizes" \in DOMAIN d
                  /\ ~(d.supported_sizes.islist /\ d.supported_sizes.items # <<>>)
             THEN Fail("supported_sizes must be a non-empty list")
        ELSE IF "supported_sizes" \in DOMAIN d
                  /\ ~ProcessSizesUpdate(d.supported_sizes.items).ok
             THEN Fail("Invalid label size")
        ELSE IF "dpi" \in DOMAIN d /\ ~DpiOk(d.dpi)
             THEN Fail("DPI must be a positive integer")
        ELSE [ok |-> TRUE, msg |-> ""]

\* an update that merges data into the record and leaves the id it carries
MergeKeepingDataId(old, printer_id, d) == NormalisedUpdate(d) @@ d @@ old

\* printers[printer_index].update(printer_data), then ['id'] = printer_id
MergePrinter(old, printer_id, d) ==
    [id |-> printer_id] @@ NormalisedUpdate(d) @@ d @@ old

\* the index update_printer finds: the first record with the id
PrinterIndex(printers, id) ==
    MinOf({i \in 1..Len(printers) : DictGet(printers[i], "id", "None") = id})

\* [p for p in printers if p.get('id') != printer_id]
WithoutPrinter(printers, id) ==
    SelectSeq(printers, LAMBDA p : DictGet(p, "id", "None") # id)

ValidData(id) ==
    [id |-> id, name |-> "Printer", ip |-> "10.0.0.2", port |-> IntQ(9100),
     supported_sizes |-> SizeList(<<"4x6">>), dpi |-> IntQ(203)]

Without(d, field) == [k \in DOMAIN d \ {field} |-> d[k]]

\* printer_data a caller of add_printer passes: valid, or invalid in one way
AddChoices ==
    LET v == ValidData("p2")
    IN  {ValidData("p1"), v, ValidData("lab_2-b"),
         [v EXCEPT !.supported_sizes = SizeList(<<"101.6x152.4mm">>)],
         [v EXCEPT !.supported_sizes = SizeList(<<"4x6", "0.05x6">>)],
         [v EXCEPT !.supported_sizes = SizeList(<<"100x150mm">>)]}
        \cup {Without(v, RequiredFields[i]) : i \in 1..Len(RequiredFields)}
        \cup {[v EXCEPT !.id = x] : x \in {"", "bad id!", "--"}}
        \cup {[v EXCEPT !.ip = x] : x \in {"", "300.0.0.1", "10.0.0"}}
        \cup {[v EXCEPT !.port = x] :
                x \in {IntQ(0), IntQ(-1), IntQ(MAX_PORT + 1), NotAnInt}}
        \cup {[v EXCEPT !.supported_sizes = x] :
                x \in {SizeList(<<>>), SizeList(<<"junk">>),
                       SizeList(<<"4x6", "20x20">>),
                       SizeList(<<NotStrOrDict>>), NotAList}}
        \cup {[v EXCEPT !.dpi = x] : x \in {IntQ(0), NotAnInt}}

\* printer_data a caller of update_printer passes
UpdateChoices ==
    {[id |-> "p9"], [id |-> "p2", name |-> "Renamed"], [enabled |-> FALSE],
     [port |-> IntQ(9101)], [port |-> IntQ(MAX_PORT + 1)], [ip |-> "300.0.0.1"],
     [supported_sizes |-> SizeList(<<"8x10">>)], [dpi |-> IntQ(0)],
     [supported_sizes |-> SizeList(<<"junk">>)],
     [supported_sizes |-> SizeList(<<NotStrOrDict>>)],
     [supported_sizes |-> SizeList(<<"0.05x6">>)]}

RegIds == {"p1", "p2", "p9"}

SaveFailed == "Failed to save printer configuration"

\* what every registry call records before it acts
RegCall(op, id, d) ==
    /\ pc = "idle"
    /\ regCalls < MaxRegCalls
    /\ regCalls' = regCalls + 1
    /\ regOp' = [op |-> op, id |-> id, data |-> d]
    /\ regBefore' = registry
    /\ listBefore' = LoadPrinters(printers_cache, registry)
    /\ UNCHANGED templates
    /\ regVia' = manager
    /\ UNCHANGED <<other_cache, manager>>
    /\ UNCHANGED <<jobVars, sendVars, histVars, pageVars, deleteVars, fileVars, tplVars,
                   raceVars>>

\* _save_printers without 'self._printers_cache = None'
SavePrintersKeepingCache(data, written, done) ==
    IF written
    THEN /\ registry' = data
         /\ printers_cache' = <<data>>
         /\ regRet' = <<TRUE, done>>
    ELSE /\ registry' = registry
         /\ printers_cache' = <<data>>
         /\ regRet' = <<FALSE, SaveFailed>>

\* _save_printers(data): on success the file holds data and the cache is
\* dropped; on failure the file is unchanged and the cache keeps the object
\* the call has modified
SavePrinters(data, written, done) ==
    IF written
    THEN /\ registry' = data
         /\ printers_cache' = <<>>
         /\ regRet' = <<TRUE, done>>
    ELSE /\ registry' = registry
         /\ printers_cache' = <<data>>
         /\ regRet' = <<FALSE, SaveFailed>>

\* add_printer(printer_data)
AddPrinter ==
    \E d \in AddChoices, written \in BOOLEAN :
        LET printers == LoadPrinters(printers_cache, registry)
            v == ValidateAdd(d, printers)
        IN  /\ RegCall("add", DictGet(d, "id", ""), d)
            /\ IF ~v.ok
               THEN /\ registry' = registry
                    /\ printers_cache' = IF v.loaded THEN <<printers>>
                                         ELSE printers_cache
                    /\ regRet' = <<FALSE, v.msg>>
               ELSE SavePrinters(Append(printers, StoredPrinter(d)), written,
                                 "Printer added successfully")

\* update_printer(printer_id, printer_data): reloads from the file first
UpdatePrinter ==
    \E id \in RegIds, d \in UpdateChoices, written \in BOOLEAN :
        LET printers == registry
            v == ValidateUpdate(d)
            at == PrinterIndex(printers, id)
        IN  /\ RegCall("update", id, d)
            /\ IF ~HasPrinter(printers, id)
               THEN /\ registry' = registry
                    /\ printers_cache' = <<printers>>
                    /\ regRet' = <<FALSE, "Printer not found">>
               ELSE IF ~v.ok
               THEN /\ registry' = registry
                    /\ printers_cache' = <<printers>>
                    /\ regRet' = <<FALSE, v.msg>>
               ELSE SavePrinters(
                        [printers EXCEPT ![at] = MergePrinter(@, id, d)],
                        written, "Printer updated successfully")

\* delete_printer(printer_id)
DeletePrinter ==
    \E id \in RegIds, written \in BOOLEAN :
        LET printers == LoadPrinters(printers_cache, registry)
            kept == WithoutPrinter(printers, id)
        IN  /\ RegCall("delete", id, [none |-> TRUE])
            /\ IF Len(kept) = Len(printers)
               THEN /\ registry' = registry
                    /\ printers_cache' = <<printers>>
                    /\ regRet' = <<FALSE, "Printer not found">>
               ELSE SavePrinters(kept, written, "Printer deleted successfully")

\* list_printers()
ListPrinters ==
    /\ RegCall("list", "", [none |-> TRUE])
    /\ registry' = registry
    /\ printers_cache' = <<LoadPrinters(printers_cache, registry)>>
    /\ regRet' = <<TRUE, "listed">>

SecondPrinter ==
    [PrinterRec(FALSE) EXCEPT !.id = "p2", !.name = "Printer 2", !.ip = "10.0.0.2"]

\* a record written before structured sizes existed: no supported_sizes_v2,
\* no 'enabled'
LegacyPrinter ==
    [id |-> "p3", name |-> "Printer 3", ip |-> "10.0.0.3", port |-> 9100,
     supported_sizes |-> <<"4x6">>, dpi |-> 203]

\* label sizes a caller of validate_printer_compatibility asks for
LabelSizes == {"4x6", "101.6x152.4mm", "8x10", "4.1x6.1", "3.9x5.9", "junk"}

\* validate_printer_compatibility(printer_id, label_size); get_printer
\* loads the cache
CheckCompatibility ==
    \E id \in RegIds \cup {"p3"}, s \in LabelSizes :
        LET r == ValidatePrinterCompatibility(id, s)
        IN  /\ RegCall("compat", id, [label_size |-> s])
            /\ registry' = registry
            /\ printers_cache' = <<Printers>>
            /\ regRet' = <<r[1], r[2][1]>>

InitRegistry ==
    /\ registry \in {<<>>, <<PrinterRec(TRUE)>>, <<PrinterRec(TRUE), SecondPrinter>>,
                      <<LegacyPrinter>>}
    /\ templates = [n \in {"t1"} |->
                      [size |-> "4x6", vars |-> {}, syntax_ok |-> TRUE,
                       out |-> LabelPrefix(MaxRenderLen)]]
    /\ history = <<>>
    /\ max_entries = DEFAULT_MAX_ENTRIES
    /\ clock = MaxTs + 1
    /\ Idle
    /\ template_files = NoTemplateDir
    /\ other_cache = <<>>
    /\ NoFileOps

NextRegistry ==
    \/ AddPrinter
    \/ UpdatePrinter
    \/ DeletePrinter
    \/ ListPrinters
    \/ CheckCompatibility

SpecRegistry == InitRegistry /\ [][NextRegistry]_vars

-----------------------------------------------------------------------------
(* The template store of TemplateManager (template_manager.py).  A text is *)
(* a sequence of lines, content.split('\n'), and a line a sequence of      *)
(* tokens; the texts explored hold no blanks apart from the line breaks    *)
(* and are short of the 100000-character limit.                            *)

MaxTplCalls == 1

\* the absence of a file in the templates directory
NoFile == <<>>

\* content == ''
EmptyText == <<<<>>>>

RECURSIVE Flatten(_)
\* the tokens of a text in order, line breaks dropped
Flatten(lines) ==
    IF lines = <<>> THEN <<>> ELSE Head(lines) \o Flatten(Tail(lines))

\* content.upper() makes the markers of either case alike
IsXA(t) == t \in {"^XA", "^xa"}
IsXZ(t) == t \in {"^XZ", "^xz"}

\* content_upper.count('^XA'), content_upper.count('^XZ')
CountXA(tokens) == Cardinality({i \in DOMAIN tokens : IsXA(tokens[i])})
CountXZ(tokens) == Cardinality({i \in DOMAIN tokens : IsXZ(tokens[i])})

\* a check that only looks at the first and the last marker
ValidateZplContentNoBalance(content) ==
    LET t == Flatten(content)
    IN  IF content = EmptyText THEN <<FALSE, "ZPL content cannot be empty">>
        ELSE IF t = <<>> \/ ~IsXA(t[1])
        THEN <<FALSE, "ZPL content should start with ^XA">>
        ELSE IF ~IsXZ(t[Len(t)])
        THEN <<FALSE, "ZPL content should end with ^XZ">>
        ELSE <<TRUE, "">>

\* validate_zpl_content(content)
ValidateZplContent(content) ==
    LET t == Flatten(content)
    IN  IF content = EmptyText THEN <<FALSE, "ZPL content cannot be empty">>
        ELSE IF t = <<>> \/ ~IsXA(t[1])
        THEN <<FALSE, "ZPL content should start with ^XA">>
        ELSE IF ~IsXZ(t[Len(t)])
        THEN <<FALSE, "ZPL content should end with ^XZ">>
        ELSE IF CountXA(t) # CountXZ(t)
        THEN <<FALSE, "Unbalanced ^XA and ^XZ commands">>
        ELSE <<TRUE, "">>

\* stripped.startswith('^FX'): a comment line is the token ^FX and its text
IsFX(line) == line # <<>> /\ line[1] = "^FX"

\* 'metadata' in stripped.lower()
MentionsMetadata(line) == \E i \in DOMAIN line : line[i] = "Template Metadata"

RECURSIVE FilterLines(_, _, _)
\* the loop of _build_template_with_metadata over content_lines
FilterLines(lines, filtered_lines, in_metadata) ==
    IF lines = <<>> THEN filtered_lines
    ELSE LET line == Head(lines)
             rest == Tail(lines)
         IN  IF line = <<"^XA">> /\ filtered_lines = <<>>
             THEN FilterLines(rest, filtered_lines, in_metadata)
             ELSE IF IsFX(line) /\ MentionsMetadata(line)
             THEN FilterLines(rest, filtered_lines, TRUE)
             ELSE IF in_metadata /\ IsFX(line)
             THEN FilterLines(rest, filtered_lines, in_metadata)
             ELSE FilterLines(rest, Append(filtered_lines, line), FALSE)

\* f"{label_size.width}" of a float given in tenths
FloatStr(tenths) == ToString(tenths \div 10) \o "." \o ToString(tenths % 10)

\* the header lines _build_template_with_metadata writes for metadata
HeaderLines(metadata) ==
    LET Field(k) == IF k \in DOMAIN metadata
                    THEN <<<<"^FX", k \o ": " \o metadata[k]>>>> ELSE <<>>
        p == ParseSize(metadata.size)
        SizeFields == IF "size" \in DOMAIN metadata /\ p.ok
                      THEN <<<<"^FX", "size_unit: " \o p.unit>>,
                             <<"^FX", "size_width: " \o FloatStr(p.width)>>,
                             <<"^FX", "size_height: " \o FloatStr(p.height)>>>>
                      ELSE <<>>
    IN  <<<<"^XA">>, <<"^FX", "Template Metadata">>>>
            \o Field("name") \o Field("description") \o Field("size")
            \o SizeFields \o Field("variables") \o Field("created")
            \o Field("modified") \o <<<<>>>>

\* _build_template_with_metadata(content, metadata)
BuildTemplateWithMetadata(content, metadata) ==
    HeaderLines(metadata) \o FilterLines(content, <<>>, FALSE)

\* the size check of create_template and update_template
TemplateSizeOk(metadata) ==
    "size" \in DOMAIN metadata
        => WithUnitOk(metadata.size) \/ ValidateLabelSize(metadata.size)

\* name.endswith('.zpl.j2'), on the names explored
HasTemplateSuffix(name) == name \in {"t1.zpl.j2", "t2.zpl.j2"}

\* os.path.exists(filepath)
FileExists(dir, name) == name \in DOMAIN dir /\ dir[name] # NoFile

\* get_template(name)['content']: the text of the file
GetTemplateContent(dir, name) == dir[name]

Raised(kind, msg) == [raised |-> kind, msg |-> msg]
Returned(value) == [raised |-> "none", msg |-> value]

\* what create_template and update_template do once the file is known to
\* be in the right state: [ret, text], text being NoFile when nothing is
\* written; open(filepath, 'w') either fails or the text is written
ValidateAndBuild(content, metadata, opened, failure) ==
    LET v == ValidateZplContent(content)
    IN  IF ~v[1]
        THEN [ret |-> Raised("ValueError", "Invalid ZPL content: " \o v[2]),
              text |-> NoFile]
        ELSE IF ~TemplateSizeOk(metadata)
        THEN [ret |-> Raised("ValueError", "Invalid label size"), text |-> NoFile]
        ELSE IF ~opened
        THEN [ret |-> Raised("ValueError", failure), text |-> NoFile]
        ELSE [ret |-> Returned("filepath"),
              text |-> BuildTemplateWithMetadata(content, metadata)]

\* jinja2.Undefined: a missing variable is no error and renders as nothing
Undefined(missing) == FALSE

\* jinja2.StrictUndefined, as configured in __init__: a missing variable
\* raises UndefinedError
StrictUndefined(missing) == missing # {}

\* the variable a placeholder token names
VarOf(t) == IF t = "{{a}}" THEN "a" ELSE "b"
IsPlaceholder(t) == t \in {"{{a}}", "{{b}}"}

\* a token the templating engine cannot parse
IsSyntaxError(t) == t = "{{"

\* the variables a text refers to
ReferencedVars(text) ==
    LET t == Flatten(text)
    IN  {VarOf(t[i]) : i \in {k \in DOMAIN t : IsPlaceholder(t[k])}}

\* template.render(**variables) of a text that parses
Substitute(text, variables) ==
    [l \in DOMAIN text |->
        [i \in DOMAIN text[l] |->
            LET t == text[l][i]
            IN  IF ~IsPlaceholder(t) THEN t
                ELSE IF VarOf(t) \in DOMAIN variables THEN variables[VarOf(t)]
                ELSE ""]]

\* render_template(name, variables): jinja_env.get_template raises
\* TemplateNotFound or TemplateSyntaxError, both TemplateError
RenderTemplateFile(dir, name, variables) ==
    IF ~FileExists(dir, name)
    THEN Raised("TemplateError", "Template rendering error")
    ELSE LET text == dir[name]
             t == Flatten(text)
         IN  IF \E i \in DOMAIN t : IsSyntaxError(t[i])
             THEN Raised("TemplateError", "Template rendering error")
             ELSE IF StrictUndefined(ReferencedVars(text) \ DOMAIN variables)
             THEN Raised("TemplateError", "Missing required variable")
             ELSE Returned(Substitute(text, variables))

\* bodies a caller passes as content
Bodies ==
    {<<<<"^XA">>, <<"^FD", "{{a}}">>, <<"^XZ">>>>,
     <<<<"^XA", "^FD", "{{a}}", "^XZ">>>>,
     <<<<"^XA">>, <<"^FD", "{{a}}", "{{b}}">>, <<"^XZ">>>>,
     <<<<"^XA">>, <<"^FX", "Template Metadata">>, <<"^FX", "name: Old">>, <<>>,
       <<"^FD", "{{a}}">>, <<"^XZ">>>>,
     <<<<>>, <<"^XA">>, <<"^FD">>, <<"^XZ">>>>,
     <<<<"^xa">>, <<"^FD">>, <<"^xz">>>>,
     <<<<"^XA">>, <<"^FD", "{{">>, <<"^XZ">>>>,
     <<<<"^XA">>, <<"^FD">>, <<"^XZ">>, <<"^XA">>, <<"^FD">>, <<"^XZ">>>>,
     EmptyText,
     <<<<"^FD", "{{a}}">>, <<"^XZ">>>>,
     <<<<"^XA">>, <<"^FD", "{{a}}">>>>,
     <<<<"^XA">>, <<"^XA">>, <<"^FD">>, <<"^XZ">>>>,
     <<<<"^XA", "^FD", "^XZ", "^XZ">>>>}

MetadataChoices ==
    {[name |-> "Label"], [name |-> "Label", size |-> "4x6"], [size |-> "junk"]}

TemplateFileNames == {"t1.zpl.j2", "t2.zpl.j2", "notes.txt"}

VariableMaps == {<<>>, [a |-> "A1"], [b |-> "B1"], [a |-> "A1", b |-> "B1"]}

\* what every TemplateManager call records before it acts
TplCall(op) ==
    /\ pc = "idle"
    /\ tplCalls < MaxTplCalls
    /\ tplCalls' = tplCalls + 1
    /\ tplOp' = op
    /\ tplBefore' = template_files
    /\ UNCHANGED <<jobVars, sendVars, histVars, pageVars, envVars, deleteVars,
                   fileVars, regVars, extVars>>

\* create_template(name, content, metadata); sanitize_filename leaves the
\* names explored as they are
CreateTemplate ==
    \E name \in TemplateFileNames, content \in Bodies, metadata \in MetadataChoices,
       opened \in BOOLEAN :
        LET r == ValidateAndBuild(content, metadata, opened, "Error creating template")
        IN  /\ TplCall([op |-> "create", name |-> name, content |-> content,
                        metadata |-> metadata])
            /\ IF ~HasTemplateSuffix(name)
               THEN /\ tplRet' = Raised("ValueError", "Template name must end with '.zpl.j2'")
                    /\ template_files' = template_files
               ELSE IF FileExists(template_files, name)
               THEN /\ tplRet' = Raised("FileExistsError", "Template already exists")
                    /\ template_files' = template_files
               ELSE /\ tplRet' = r.ret
                    /\ template_files' =
                          IF r.text = NoFile THEN template_files
                          ELSE [template_files EXCEPT ![name] = r.text]

\* update_template(name, content, metadata); the content is a body of the
\* caller's or the content get_template(name) has just returned
UpdateTemplate ==
    \E name \in TemplateFileNames, metadata \in MetadataChoices, opened \in BOOLEAN :
      \E content \in Bodies \cup {GetTemplateContent(template_files, n) :
                                      n \in {name} \cap DOMAIN template_files} :
        LET stamped == [modified |-> "now"] @@ metadata
            r == ValidateAndBuild(content, stamped, opened, "Error updating template")
        IN  /\ TplCall([op |-> "update", name |-> name, content |-> content,
                        metadata |-> metadata])
            /\ IF ~FileExists(template_files, name)
               THEN /\ tplRet' = Raised("FileNotFoundError", "Template not found")
                    /\ template_files' = template_files
               ELSE /\ tplRet' = r.ret
                    /\ template_files' =
                          IF r.text = NoFile THEN template_files
                          ELSE [template_files EXCEPT ![name] = r.text]

\* render_template(name, variables)
RenderTemplateCall ==
    \E name \in TemplateFileNames, variables \in VariableMaps :
        /\ TplCall([op |-> "render", name |-> name, variables |-> variables])
        /\ tplRet' = RenderTemplateFile(template_files, name, variables)
        /\ template_files' = template_files

\* a templates directory: empty, or holding t1.zpl.j2 as create_template
\* wrote it, or as it was put there by hand
TemplateDirs ==
    LET Dir(text) == [n \in {"t1.zpl.j2", "t2.zpl.j2"} |->
                         IF n = "t1.zpl.j2" THEN text ELSE NoFile]
    IN  {Dir(NoFile),
         Dir(BuildTemplateWithMetadata(<<<<"^XA">>, <<"^FD", "{{a}}">>, <<"^XZ">>>>,
                                       [name |-> "Label"])),
         Dir(<<<<"^XA", "^FD", "{{a}}", "{{b}}", "^XZ">>>>)}

InitTemplate ==
    /\ registry = <<PrinterRec(TRUE)>>
    /\ templates = [n \in {"t1"} |->
                      [size |-> "4x6", vars |-> {}, syntax_ok |-> TRUE,
                       out |-> LabelPrefix(MaxRenderLen)]]
    /\ history = <<>>
    /\ max_entries = DEFAULT_MAX_ENTRIES
    /\ clock = MaxTs + 1
    /\ Idle
    /\ NoFileOps
    /\ other_cache = <<>>
    /\ template_files \in TemplateDirs

NextTemplate ==
    \/ CreateTemplate
    \/ UpdateTemplate
    \/ RenderTemplateCall

SpecTemplate == InitTemplate /\ [][NextTemplate]_vars

-----------------------------------------------------------------------------
(* Two add_entry calls on one history file (history_manager.py), each a    *)
(* load, an append to what was loaded, and a save; write_json replaces the *)
(* file in one rename, so a load sees the file before or after a save.     *)

Writers == 1..2

\* the entries a writer saves if it appended to the file as it is now
SavedOnCurrent(snapshot, current, entry, max) == Rotate(Append(current, entry), max)

\* history['entries'].append(entry) and the rotation, on the data the call
\* loaded
SavedEntries(snapshot, current, entry, max) == Rotate(Append(snapshot, entry), max)

\* job_data of the racing callers
RaceJobData == {[status |-> "success"], [status |-> "failed", id |-> "a"]}

\* self._load_history() and the building of the entry
RaceLoad(w) ==
    /\ writers[w].pc = "start"
    /\ \E job_data \in RaceJobData :
         writers' = [writers EXCEPT ![w] =
                        [pc |-> "loaded",
                         snapshot |-> history,
                         entry |-> MakeEntry(job_data, clock, "uuid-" \o ToString(w))]]
    /\ clock' = clock + 1
    /\ events' = Append(events, <<"load", w>>)
    /\ UNCHANGED <<history, addCalls, histBefore, max_entries, added, dropped, addRet>>
    /\ UNCHANGED <<jobVars, sendVars, pageVars, envVars, deleteVars, fileVars,
                   regVars, tplVars, mgrVars>>

\* self._save_history(history) and the return
RaceSave(w) ==
    /\ writers[w].pc = "loaded"
    /\ \E written \in BOOLEAN :
         /\ history' = IF written
                       THEN SavedEntries(writers[w].snapshot, history,
                                         writers[w].entry, max_entries)
                       ELSE history
         /\ writers' = [writers EXCEPT ![w] =
                           [pc |-> "returned", entry |-> writers[w].entry,
                            ret |-> IF written THEN <<TRUE, writers[w].entry.id>>
                                    ELSE <<FALSE, "Failed to save history">>]]
    /\ events' = Append(events, <<"save", w>>)
    /\ UNCHANGED <<addCalls, histBefore, max_entries, clock, added, dropped, addRet>>
    /\ UNCHANGED <<jobVars, sendVars, pageVars, envVars, deleteVars, fileVars,
                   regVars, tplVars, mgrVars>>

InitRace ==
    /\ registry = <<PrinterRec(TRUE)>>
    /\ templates = [n \in {"t1"} |->
                      [size |-> "4x6", vars |-> {}, syntax_ok |-> TRUE,
                       out |-> LabelPrefix(MaxRenderLen)]]
    /\ history \in {<<>>, <<HistEntry("old-1", 1)>>,
                    <<HistEntry("old-1", 1), HistEntry("old-2", 2)>>}
    /\ max_entries \in {2, DEFAULT_MAX_ENTRIES}
    /\ clock = MaxTs + 1
    /\ Idle
    /\ template_files = NoTemplateDir
    /\ other_cache = <<>>
    /\ NoFileOps

NextRace == \E w \in Writers : RaceLoad(w) \/ RaceSave(w)

SpecRace == InitRace /\ [][NextRace]_vars

-----------------------------------------------------------------------------
(* Two PrinterManager instances on one printers.json (one per worker       *)
(* process), their calls made one after another.  printers_cache is the    *)
(* cache of the instance in use, other_cache that of the other one.        *)

\* the next call is made through the other instance
UseOtherManager ==
    /\ pc = "idle"
    /\ regCalls < MaxRegCalls
    /\ manager' = 3 - manager
    /\ printers_cache' = other_cache
    /\ other_cache' = printers_cache
    /\ UNCHANGED <<regOp, regRet, regBefore, listBefore, regCalls, regVia>>
    /\ UNCHANGED <<jobVars, sendVars, histVars, pageVars, envVars, deleteVars,
                   fileVars, tplVars, raceVars>>

\* the other instance has not read the file yet, or has listed it
InitManagers ==
    /\ registry \in {<<PrinterRec(TRUE)>>, <<PrinterRec(TRUE), SecondPrinter>>}
    /\ templates = [n \in {"t1"} |->
                      [size |-> "4x6", vars |-> {}, syntax_ok |-> TRUE,
                       out |-> LabelPrefix(MaxRenderLen)]]
    /\ history = <<>>
    /\ max_entries = DEFAULT_MAX_ENTRIES
    /\ clock = MaxTs + 1
    /\ Idle
    /\ template_files = NoTemplateDir
    /\ NoFileOps
    /\ other_cache \in {<<>>, <<registry>>}

NextManagers ==
    \/ AddPrinter
    \/ UpdatePrinter
    \/ DeletePrinter
    \/ ListPrinters
    \/ UseOtherManager

SpecManagers == InitManagers /\ [][NextManagers]_vars

-----------------------------------------------------------------------------
(* Properties of PrintJob.execute(), checked under Spec.                   *)

JobDone == pc = "done" /\ caller = "job"

\* the history file was writable whenever the call wrote to it
HistoryWritable == addRet # <<FALSE>>

\* C1: every execute() with log_to_history enabled appends exactly one entry
\* to the history store, whatever the outcome (the history file being
\* writable).
C1_OneEntryPerExecute ==
    (JobDone /\ job.log_to_history /\ HistoryWritable)
        => /\ addCalls = 1
           /\ history = Append(histBefore, JobEntry(job))

\* C2: when validation passes and the template renders without error,
\* execute() calls send_zpl exactly once with the rendered ZPL and the
\* requested quantity, and a successful send makes execute() return success
\* with status 'success'.
C2_RenderedIsSentOnce ==
    (JobDone /\ validateRet.ran /\ validateRet.ok
        /\ renderRaw.ran /\ ~renderRaw.raised)
        => /\ sendCalls = 1
           /\ sendArgs.zpl = Text(renderRaw.chars)
           /\ sendArgs.quantity = job.quantity
           /\ (sendRet[1] => (ret[1] /\ job.status = "success"))

\* the template of the job carries a label size that
\* validate_printer_compatibility rejects for the job's printer
SizeRejected ==
    /\ TemplateExists(job.template_name)
    /\ templates[job.template_name].size # ""
    /\ ~ValidatePrinterCompatibility(job.printer_id,
                                     templates[job.template_name].size)[1]

\* C3: validate() fails, and execute() never reaches send_zpl, whenever the
\* template carries a label size that validate_printer_compatibility rejects
\* for the chosen printer.
C3_IncompatibleSizeRejected ==
    (caller = "job" /\ validateRet.ran /\ SizeRejected)
        => (~validateRet.ok /\ sendCalls = 0)

\* the job's printer exists and is disabled
PrinterDisabled ==
    /\ ~NoPrinter(job.printer_id)
    /\ ~PrinterEnabled(GetPrinter(job.printer_id))

\* what the claim says of a job sent to a disabled printer
DisabledOutcome ==
    /\ ~ret[1]
    /\ "Printer is disabled" \in SeqToSet(ret[2])
    /\ socksCreated = 0
    /\ (job.log_to_history /\ HistoryWritable)
          => /\ Len(history) = Len(histBefore) + 1
             /\ history[Len(history)].id = job.job_id
             /\ history[Len(history)].status = "failed"
             /\ history[Len(history)].error_message = ret[2]

\* C4 as claimed: a job against an existing but disabled printer returns
\* failure with a message saying the printer is disabled, writes one history
\* entry with status 'failed' carrying that message, and opens no socket.
C4_DisabledPrinterAnyTemplate ==
    (JobDone /\ PrinterDisabled) => DisabledOutcome

\* C4 as amended: the same, for a job whose template exists.
C4_DisabledPrinter ==
    (JobDone /\ PrinterDisabled /\ TemplateExists(job.template_name))
        => DisabledOutcome

C4_Witness ==
    /\ JobDone /\ PrinterDisabled /\ TemplateExists(job.template_name)
    /\ job.log_to_history /\ addRet = <<TRUE>>
    /\ Len(history) = 2

\* C5: a failed preview generation never prevents the send step and never
\* changes the job status: whether the preview failed, succeeded or was not
\* requested, a rendered job calls send_zpl once with the same arguments and
\* its status and return value are those the result of send_zpl alone gives.
C5_PreviewNeverFatal ==
    (JobDone /\ renderRaw.ran /\ Truthy(job.rendered_zpl))
        => /\ sendCalls = 1
           /\ sendArgs = SendArgsOf(job)
           /\ ret[1] = sendRet[1]
           /\ job.status = (IF sendRet[1] THEN "success" ELSE "failed")
           /\ job.error_message = (IF sendRet[1] THEN NoMsg ELSE sendRet[2])
           /\ (~sendRet[1] => ret[2] = sendRet[2])

C5_Witness ==
    /\ JobDone /\ previewRet = "failed"
    /\ sendCalls = 1 /\ sendRet[1] /\ job.status = "success"

-----------------------------------------------------------------------------
(* Properties of send_zpl, checked under SpecSend.                         *)

SendReturned == pc = "done" /\ caller = "direct"

\* what the claim lists: a copy count that is no integer in 1..100, an
\* unknown or disabled printer, an empty body, a body over 100000 characters
BadSendArgs(a) ==
    \/ ~a.quantity.isint
    \/ a.quantity.n \notin 1..MAX_QUANTITY
    \/ NoPrinter(a.printer_id)
    \/ ~PrinterEnabled(GetPrinter(a.printer_id))
    \/ a.zpl.kind = "none"
    \/ a.zpl.len = 0
    \/ a.zpl.len > MAX_ZPL_LEN

\* C6: send_zpl returns success if and only if each requested copy completed
\* connect and sendall without a socket error (a failing write-shutdown alone
\* does not fail a copy); at the first socket error, in copy k, it returns
\* failure and copies k+1..quantity are never attempted.
C6_AllCopiesOrAbort ==
    (SendReturned /\ ~BadSendArgs(sendArgs))
        => /\ sendRet[1] <=> (copiesDone = sendArgs.quantity.n)
           /\ sendRet[1] => (errorCopy = 0 /\ socksCreated = sendArgs.quantity.n)
           /\ ~sendRet[1] => /\ errorCopy \in 1..sendArgs.quantity.n
                             /\ copiesDone = errorCopy - 1
                             /\ copy_num = errorCopy - 1
                             /\ socksCreated <= errorCopy

C6_Witness ==
    /\ SendReturned /\ ~sendRet[1]
    /\ shutdownErrs = 1 /\ errorCopy = 2 /\ copiesDone = 1

\* C7: send_zpl opens no socket and returns failure when the copy count is
\* not an integer in 1..100, the printer is absent or disabled, or the body
\* is empty or longer than 100000 characters.
C7_BadArgsOpenNoSocket ==
    (caller = "direct" /\ pc # "send_call" /\ BadSendArgs(sendArgs))
        => /\ socksCreated = 0
           /\ (pc = "done" => ~ret[1])

C7_Witness ==
    /\ SendReturned /\ ~ret[1] /\ socksCreated = 0
    /\ sendArgs.zpl.len = MAX_ZPL_LEN + 1
    /\ QuantityOk(sendArgs.quantity)
    /\ ~NoPrinter(sendArgs.printer_id)
    /\ PrinterEnabled(GetPrinter(sendArgs.printer_id))

-----------------------------------------------------------------------------
(* Properties of HistoryManager.add_entry, checked under SpecHist.         *)

\* the last n elements of s
LastN(s, n) == SubSeq(s, Len(s) - n + 1, Len(s))

SomeAddSucceeded == Len(added) >= 1

\* C8: once an add_entry has succeeded the store holds at most max_entries
\* entries, the last ones of what was stored and added; after more than
\* max_entries successful adds to an empty store it holds exactly
\* max_entries entries, the last max_entries added.
C8_RotationKeepsLast ==
    SomeAddSucceeded =>
        /\ Len(history) <= max_entries
        /\ \E n \in 0..max_entries : history = LastN(histBefore \o added, n)
        /\ (histBefore = <<>> /\ Len(added) > max_entries)
              => /\ Len(history) = max_entries
                 /\ history = LastN(added, max_entries)

C8_Witness ==
    /\ histBefore = <<>>
    /\ max_entries = 2
    /\ Len(added) = 3
    /\ addRet = <<TRUE>>
    /\ Len(dropped) = 1

\* C9: when an append pushes the store past max_entries, no retained entry
\* has a timestamp earlier than that of a dropped entry, whatever timestamps
\* the callers supplied.
C9_DroppedAreOldest ==
    (addRet = <<TRUE>> /\ dropped # <<>>)
        => \A i \in 1..Len(history), k \in 1..Len(dropped) :
              history[i].timestamp >= dropped[k].timestamp

-----------------------------------------------------------------------------
(* Properties of HistoryManager.get_entries, checked under SpecPage.       *)

\* p is in timestamp order, newest first, ties in stored order
NewestFirstStable(p) ==
    \A i \in 1..(Len(p) - 1) :
        \/ TsOf(p[i]) > TsOf(p[i + 1])
        \/ (TsOf(p[i]) = TsOf(p[i + 1]) /\ p[i].pos < p[i + 1].pos)

\* the number of stored entries the filters of the query keep
MatchCount == Cardinality({i \in 1..Len(history) : Matches(history[i], query)})

\* entries offset+1 .. offset+count of all matching entries, newest first
FirstFrom(offset, count) ==
    LET all == SortNewestFirst(SelectSeq(history, LAMBDA e : Matches(e, query)))
        last == IF offset + count < Len(all) THEN offset + count ELSE Len(all)
    IN  SubSeq(all, offset + 1, last)

PosOf(p) == {p[i].pos : i \in 1..Len(p)}

\* every call: sorted newest first, ties in stored order; total_count is the
\* number of matching entries
SortedAndCounted ==
    pc \in {"paged", "paged2"} =>
        /\ NewestFirstStable(page)
        /\ total_count = MatchCount

\* two successive pages are disjoint and together are the first 2*limit
\* entries from the first offset; total_count is the same in both calls
PagesTile ==
    /\ firstTotal = total_count
    /\ PosOf(firstPage) \cap PosOf(page) = {}
    /\ firstPage \o page = FirstFrom(query.offset - query.limit, 2 * query.limit)

PageCapped == Len(page) <= LIMIT_CAP /\ Len(firstPage) <= LIMIT_CAP

\* C10 as claimed: get_entries returns entries sorted by timestamp
\* descending, ties in stored order, and a total_count equal to the number
\* of matching entries whatever limit and offset; pages (offset, limit) and
\* (offset+limit, limit) are disjoint and together equal the first 2*limit
\* entries from offset; no page has more than 500 entries.
C10_PagesTileAnyLimit ==
    /\ SortedAndCounted
    /\ PageCapped
    /\ pc = "paged2" => PagesTile

\* C10 as amended: the same, the two pages tiling the first 2*limit entries
\* from offset when limit is at most 500.
C10_PagesTile ==
    /\ SortedAndCounted
    /\ PageCapped
    /\ (pc = "paged2" /\ query.limit <= LIMIT_CAP) => PagesTile

C10_Witness ==
    /\ pc = "paged2"
    /\ Len(history) = LIMIT_CAP + 1
    /\ query.limit = LIMIT_CAP /\ query.offset = LIMIT_CAP
    /\ query = NoFilter @@ [limit |-> LIMIT_CAP, offset |-> LIMIT_CAP]
    /\ Len(firstPage) = LIMIT_CAP /\ Len(page) = 1
    /\ TsOf(firstPage[1]) = TsOf(firstPage[2])

-----------------------------------------------------------------------------
(* Properties of HistoryManager.delete_entry, checked under SpecDelete.    *)

\* some stored entry had the id when delete_entry was called
IdWasStored ==
    \E i \in 1..Len(histBefore) : DictGet(histBefore[i], "id", "None") = delete_id

\* the save of delete_entry did not fail
DeleteSaved == deleteRet # <<FALSE, "Failed to save history">>

DeleteReturned == pc \in {"deleted", "looked_up"}

\* C11: delete_entry with an id no stored entry has returns failure with a
\* not-found message and leaves the stored entries unchanged; with an id
\* that exists (the file being writable) it returns success, removes every
\* entry of that id and no other, and get_entry of the id then returns None.
C11_DeleteEntry ==
    /\ (DeleteReturned /\ ~IdWasStored)
          => /\ deleteRet = <<FALSE, "Entry not found">>
             /\ history = histBefore
    /\ (DeleteReturned /\ IdWasStored /\ DeleteSaved)
          => /\ deleteRet[1]
             /\ \A i \in 1..Len(history) : DictGet(history[i], "id", "None") # delete_id
             /\ Len(history) = Cardinality({i \in 1..Len(histBefore) :
                                  DictGet(histBefore[i], "id", "None") # delete_id})
    /\ (pc = "looked_up" /\ IdWasStored /\ DeleteSaved) => entryGot = <<>>
    /\ (DeleteReturned /\ ~DeleteSaved) => history = histBefore

C11_Witness ==
    /\ pc = "looked_up"
    /\ delete_id = "a"
    /\ deleteRet[1]
    /\ Len(histBefore) = 3 /\ Len(history) = 1
    /\ entryGot = <<>>

-----------------------------------------------------------------------------
(* Properties of write_json and read_json, checked under SpecFile.         *)

\* what a read_json of the target would return if it ran alone now
TargetDoc ==
    IF files.target = 0 THEN DefaultDoc ELSE JsonLoad(disk[files.target])

\* C12: while write_json replaces a document, a concurrent read_json of the
\* path returns the complete previous document (the default when there was
\* none) or the complete new one, never a partial one; and as long as the
\* writer has not made the move, the target document is unchanged.
C12_AtomicReplace ==
    /\ rpc = "done" => readRet \in {<<docBefore>>, <<Doc("new")>>}
    /\ (wpc \in {"start", "create", "dump", "flush", "move", "failed"})
          => /\ TargetDoc = docBefore
             /\ files.target # 0 => disk[files.target] = docBefore
    /\ wpc = "done" => TargetDoc = Doc("new")

C12_Witness ==
    /\ rpc = "done" /\ readRet = <<Doc("old")>>
    /\ rfd = 1 /\ files.target = 2
    /\ wpc = "done"

-----------------------------------------------------------------------------
(* Properties of the printer registry, checked under SpecRegistry.         *)

\* what list_printers() returns now
ListNow == LoadPrinters(printers_cache, registry)

Has(d, field) == field \in DOMAIN d

\* printer_data the claim calls invalid, given the printers listed before
\* the call: a missing required field, a bad id, a duplicate id, an invalid
\* IP, a port outside 1..65535, empty or invalid supported_sizes, a
\* non-positive DPI
ClaimedInvalid(d, listed) ==
    \/ \E f \in {"id", "name", "ip", "port", "supported_sizes", "dpi"} : ~Has(d, f)
    \/ d.id \in {"", "bad id!", "--"}
    \/ \E i \in 1..Len(listed) : listed[i].id = d.id
    \/ d.ip \in {"", "300.0.0.1", "10.0.0"}
    \/ ~d.port.isint \/ d.port.n < 1 \/ d.port.n > 65535
    \/ ~d.supported_sizes.islist
    \/ d.supported_sizes.items = <<>>
    \/ \E i \in 1..Len(d.supported_sizes.items) :
          d.supported_sizes.items[i] \in {"junk", "20x20", NotStrOrDict}
    \/ ~d.dpi.isint \/ d.dpi.n <= 0

\* C13: an add_printer whose data fails any validation returns failure and
\* performs no write: the persisted registry and the result of
\* list_printers() are the same as before the call.
C13_InvalidAddWritesNothing ==
    (regOp.op = "add" /\ ClaimedInvalid(regOp.data, listBefore))
        => /\ ~regRet[1]
           /\ regRet[2] # SaveFailed
           /\ registry = regBefore
           /\ ListNow = listBefore

C13_Witness ==
    /\ regOp.op = "add"
    /\ Has(regOp.data, "port") /\ regOp.data.port = IntQ(MAX_PORT + 1)
    /\ ~regRet[1]
    /\ Len(registry) = 1 /\ registry = regBefore
    /\ printers_cache = <<registry>>

\* the ids of a list of printers, in order
IdsOf(printers) == [i \in 1..Len(printers) |-> printers[i].id]

UniqueIds(printers) ==
    \A i, k \in 1..Len(printers) : i # k => printers[i].id # printers[k].id

\* C14: after any sequence of add_printer, update_printer and
\* delete_printer calls, an update_printer(id, data) has left the id of
\* every record, the updated one included, as it was, whatever 'id' data
\* carries, and no two records of the registry (as stored and as listed)
\* share an id.
C14_IdStableAndUnique ==
    /\ regOp.op = "update"
          => /\ IdsOf(registry) = IdsOf(regBefore)
             /\ IdsOf(ListNow) = IdsOf(regBefore)
    /\ UniqueIds(registry)
    /\ UniqueIds(ListNow)

C14_Witness ==
    /\ regOp.op = "update" /\ regOp.id = "p1"
    /\ Has(regOp.data, "id") /\ regOp.data.id = "p2"
    /\ regRet[1]
    /\ regCalls = 2
    /\ IdsOf(registry) = <<"p1", "p2">>
    /\ registry[1].name = "Renamed"

\* C15: when the registry write fails during add_printer, update_printer
\* or delete_printer, the call returns failure and list_printers() /
\* get_printer() through the same PrinterManager afterwards return the
\* collection as it was before the failed call.
C15_FailedWriteNotVisible ==
    (regOp.op \in {"add", "update", "delete"} /\ regRet = <<FALSE, SaveFailed>>)
        => /\ registry = regBefore
           /\ ListNow = listBefore

\* the first record of that id in a list of printers, as a sequence of 0 or 1
FirstWithId(printers, id) ==
    LET hits == SelectSeq(printers, LAMBDA p : p.id = id)
    IN  IF hits = <<>> THEN <<>> ELSE <<Head(hits)>>

\* width and height in 1/2540 inch of the requested sizes that have one
InchesOf(s) ==
    CASE s = "4x6" -> <<10160, 15240>>
      [] s = "101.6x152.4mm" -> <<10160, 15240>>
      [] s = "4.1x6.1" -> <<10414, 15494>>
      [] s = "3.9x5.9" -> <<9906, 14986>>
      [] s = "8x10" -> <<20320, 25400>>

\* the requested size written in inches, one decimal, whole numbers bare
NormalizedInchString(s) == IF s = "101.6x152.4mm" THEN "4x6" ELSE s

\* a structured supported size in 1/2540 inch
StructuredInches(d) ==
    IF d.unit = "mm" THEN <<d.width * 10, d.height * 10>>
    ELSE <<d.width * 254, d.height * 254>>

WithinTenthOfInch(s, d) ==
    /\ Abs(InchesOf(s)[1] - StructuredInches(d)[1]) <= 254
    /\ Abs(InchesOf(s)[2] - StructuredInches(d)[2]) <= 254

\* what the description of validate_printer_compatibility asks of a
\* request for size s on printer record p
SizeSupported(s, p) ==
    /\ s # "junk"
    /\ \/ "supported_sizes_v2" \in DOMAIN p
          /\ \E i \in DOMAIN p.supported_sizes_v2 :
                WithinTenthOfInch(s, p.supported_sizes_v2[i])
       \/ \E i \in DOMAIN p.supported_sizes :
             p.supported_sizes[i] \in {NormalizedInchString(s), s}

\* the record add_printer stores for supported_sizes ["4x6"]
AddedWith4x6(p) ==
    /\ p.supported_sizes = <<"4x6">>
    /\ "supported_sizes_v2" \in DOMAIN p
    /\ p.supported_sizes_v2 = <<[width |-> 40, height |-> 60, unit |-> "inches"]>>
    /\ p.name = "Printer"

\* C16: validate_printer_compatibility fails for an absent or disabled
\* printer; otherwise it succeeds exactly when the requested size is within
\* 0.1 inch in width and height of a structured supported size, or its
\* normalized inch string or the raw requested string is one of the legacy
\* supported sizes; a printer added with ["4x6"] accepts "4x6" and
\* "101.6x152.4mm" and rejects "8x10".
C16_Compatibility ==
    regOp.op = "compat"
        => LET found == FirstWithId(listBefore, regOp.id)
               s == regOp.data.label_size
           IN  /\ found = <<>> => ~regRet[1]
               /\ found # <<>> =>
                     LET p == found[1]
                     IN  IF "enabled" \in DOMAIN p /\ ~p.enabled
                         THEN ~regRet[1]
                         ELSE /\ regRet[1] <=> SizeSupported(s, p)
                              /\ AddedWith4x6(p) =>
                                    /\ s \in {"4x6", "101.6x152.4mm"} => regRet[1]
                                    /\ s = "8x10" => ~regRet[1]

C16_Witness ==
    /\ regOp.op = "compat" /\ regOp.id = "p2"
    /\ regOp.data.label_size = "101.6x152.4mm"
    /\ regRet = <<TRUE, "Printer is compatible">>
    /\ FirstWithId(listBefore, "p2") # <<>>
    /\ AddedWith4x6(FirstWithId(listBefore, "p2")[1])

-----------------------------------------------------------------------------
(* Properties of the template store, checked under SpecTemplate.           *)

TplWrite == tplOp.op \in {"create", "update"}

\* the body of the call does not start with ^XA, does not end with ^XZ, or
\* has unequal counts of the two (markers in either case, blank lines
\* around the body not counted, as the validator reads them)
MalformedBody ==
    LET t == Flatten(tplOp.content)
        xa == {i \in DOMAIN t : t[i] \in {"^XA", "^xa"}}
        xz == {i \in DOMAIN t : t[i] \in {"^XZ", "^xz"}}
    IN  \/ t = <<>>
        \/ 1 \notin xa
        \/ Len(t) \notin xz
        \/ Cardinality(xa) # Cardinality(xz)

InvalidContentError ==
    /\ tplRet.raised = "ValueError"
    /\ tplRet.msg \in {"Invalid ZPL content: ZPL content cannot be empty",
                       "Invalid ZPL content: ZPL content should start with ^XA",
                       "Invalid ZPL content: ZPL content should end with ^XZ",
                       "Invalid ZPL content: Unbalanced ^XA and ^XZ commands"}

\* the name is one the call goes on with: new and with the suffix for
\* create_template, present for update_template
NameAccepted ==
    LET present == tplOp.name \in DOMAIN tplBefore /\ tplBefore[tplOp.name] # <<>>
    IN  IF tplOp.op = "create"
        THEN tplOp.name \in {"t1.zpl.j2", "t2.zpl.j2"} /\ ~present
        ELSE present

\* C17 as stated: create_template and update_template with a body that
\* does not start with ^XA, does not end with ^XZ or has unequal counts of
\* ^XA and ^XZ fail with an invalid-content error and leave the template
\* store unchanged, whatever the name.
C17_InvalidBodyAnyName ==
    (TplWrite /\ MalformedBody)
        => /\ InvalidContentError
           /\ template_files = tplBefore

\* C17: create_template (name with the suffix and not yet stored) and
\* update_template (name stored) with such a body fail with an
\* invalid-content error; with any other name they fail as well, with the
\* error of the name; the template store is left unchanged in every case.
C17_InvalidBodyRejected ==
    (TplWrite /\ MalformedBody)
        => /\ tplRet.raised # "none"
           /\ NameAccepted => InvalidContentError
           /\ template_files = tplBefore

C17_Witness ==
    /\ tplOp.op = "update" /\ tplOp.name = "t1.zpl.j2"
    /\ tplOp.content = <<<<"^XA">>, <<"^XA">>, <<"^FD">>, <<"^XZ">>>>
    /\ tplRet = Raised("ValueError",
                       "Invalid ZPL content: Unbalanced ^XA and ^XZ commands")
    /\ template_files["t1.zpl.j2"] # NoFile
    /\ template_files = tplBefore

\* a text starts with ^XA, ends with ^XZ and has as many ^XA as ^XZ
WellFormed(text) ==
    LET t == Flatten(text)
        xa == {i \in DOMAIN t : t[i] \in {"^XA", "^xa"}}
        xz == {i \in DOMAIN t : t[i] \in {"^XZ", "^xz"}}
    IN  /\ t # <<>>
        /\ 1 \in xa
        /\ Len(t) \in xz
        /\ Cardinality(xa) = Cardinality(xz)

\* C18: every template persisted by a successful create_template or
\* update_template is well-formed as stored: the content get_template
\* returns for it starts with ^XA, ends with ^XZ and has equal counts of
\* ^XA and ^XZ, whether or not the first line of the body is exactly ^XA.
C18_StoredWellFormed ==
    (TplWrite /\ tplRet.raised = "none")
        => WellFormed(GetTemplateContent(template_files, tplOp.name))

\* the file a render_template call was asked for was there and parses
RenderedExisting ==
    /\ tplOp.op = "render"
    /\ tplOp.name \in DOMAIN tplBefore
    /\ tplBefore[tplOp.name] # <<>>
    /\ \A l \in DOMAIN tplBefore[tplOp.name] :
          \A i \in DOMAIN tplBefore[tplOp.name][l] :
              tplBefore[tplOp.name][l][i] # "{{"

\* the placeholders of a text that the mapping does not supply
Unsupplied(text, variables) ==
    {v \in {"a", "b"} :
        /\ \E l \in DOMAIN text : \E i \in DOMAIN text[l] :
              text[l][i] = "{{" \o v \o "}}"
        /\ v \notin DOMAIN variables}

\* the text with every placeholder replaced by its value
Filled(text, variables) ==
    [l \in DOMAIN text |->
        [i \in DOMAIN text[l] |->
            CASE text[l][i] = "{{a}}" -> variables.a
              [] text[l][i] = "{{b}}" -> variables.b
              [] OTHER -> text[l][i]]]

\* C19: render_template fails with a missing-variable error whenever a
\* placeholder of the template is absent from the mapping and never
\* returns text with a placeholder blanked; when every placeholder is
\* supplied it returns the substituted text; the stored template is left
\* unchanged.
C19_StrictRender ==
    RenderedExisting
        => LET text == tplBefore[tplOp.name]
               missing == Unsupplied(text, tplOp.variables)
           IN  /\ template_files = tplBefore
               /\ missing # {}
                     => tplRet = Raised("TemplateError", "Missing required variable")
               /\ missing = {}
                     => tplRet = Returned(Filled(text, tplOp.variables))
               /\ tplRet.raised = "none"
                     => \A l \in DOMAIN tplRet.msg : \A i \in DOMAIN tplRet.msg[l] :
                           tplRet.msg[l][i] \notin {"", "{{a}}", "{{b}}"}

C19_Witness ==
    /\ RenderedExisting
    /\ tplOp.name = "t1.zpl.j2"
    /\ DOMAIN tplOp.variables = {"a"}
    /\ Unsupplied(tplBefore["t1.zpl.j2"], tplOp.variables) = {"b"}
    /\ tplRet = Raised("TemplateError", "Missing required variable")

-----------------------------------------------------------------------------
(* The order of the socket calls of send_zpl, checked under SpecSend.      *)

\* the stage a stage of a copy is entered from
EnteredFrom(stage) ==
    CASE stage = "settimeout" -> "loop"
      [] stage = "connect" -> "settimeout"
      [] stage = "sendall" -> "connect"
      [] stage = "sleep" -> "sendall"
      [] stage = "shutdown" -> "sleep"
      [] stage = "close" -> "shutdown"

CopyStages == {"settimeout", "connect", "sendall", "sleep", "shutdown", "close"}

\* C20: within one send_zpl call the copies are sent strictly one after
\* another: for each copy the socket is created, then come set timeout,
\* connect, sendall, the settle delay, the write-shutdown attempt and
\* close, in this order; the socket of copy k is closed before the socket
\* of copy k+1 is created, so at most one socket is open at any time.
C20_OneCopyAtATime ==
    [][/\ sockOpen' <= 1
       /\ (pc' \in CopyStages /\ pc' # pc) => pc = EnteredFrom(pc')
       /\ socksCreated' # socksCreated
             => /\ sockOpen = 0 /\ sockOpen' = 1
                /\ socksCreated' = socksCreated + 1
                /\ socksCreated = copy_num
                /\ pc' = "settimeout"
       /\ copy_num' > copy_num
             => /\ pc = "close"
                /\ sockOpen = 1 /\ sockOpen' = 0
                /\ copy_num' = copy_num + 1]_vars

C20_Witness ==
    /\ caller = "direct"
    /\ pc = "close"
    /\ copy_num = 1
    /\ socksCreated = 2
    /\ sockOpen = 1

-----------------------------------------------------------------------------
(* Racing add_entry calls, checked under SpecRace.                         *)

BothReturnedSuccess ==
    \A w \in Writers : writers[w].pc = "returned" /\ writers[w].ret[1]

\* both calls loaded before either saved
Overlapped == Len(events) >= 2 /\ events[1][1] = "load" /\ events[2][1] = "load"

\* how many of the two new entries the store holds
NewEntriesStored ==
    Cardinality({w \in Writers : \E i \in DOMAIN history : history[i] = writers[w].entry})

\* C21: two add_entry calls on one history file that both return success
\* leave only one of the two new entries in the store when both loaded
\* before either saved, and both entries when one call ran after the other.
C21_LostUpdate ==
    BothReturnedSuccess
        => IF Overlapped THEN NewEntriesStored = 1 ELSE NewEntriesStored = 2

C21_Witness ==
    /\ BothReturnedSuccess
    /\ Overlapped
    /\ NewEntriesStored = 1
    /\ Len(history) = 2
    /\ history[1] = HistEntry("old-1", 1)

-----------------------------------------------------------------------------
(* Two PrinterManager instances, checked under SpecManagers.               *)

RegWrite(op) == op.op \in {"add", "update", "delete"}

\* the records of that id in a list of printers
RecordsOf(printers, id) == SelectSeq(printers, LAMBDA p : p.id = id)

\* C22: with two PrinterManager instances on one file and calls made one
\* after another, a printer successfully added or updated through one
\* instance is still present, with its latest values, after the next call
\* when that is a successful add_printer, update_printer or delete_printer
\* of a different printer through the other instance.
C22_WritesStartFromFreshRead ==
    [][(/\ regCalls' = regCalls + 1
        /\ regOp.op \in {"add", "update"} /\ regRet[1]
        /\ RegWrite(regOp') /\ regRet'[1]
        /\ regOp'.id # regOp.id
        /\ regVia' # regVia)
            => /\ RecordsOf(registry, regOp.id) # <<>>
               /\ RecordsOf(registry', regOp.id) = RecordsOf(registry, regOp.id)]_vars


-----------------------------------------------------------------------------
(* Cache invalidation, checked under SpecRegistry (one instance).          *)

\* C23: a successful add_printer, update_printer or delete_printer leaves
\* the manager's cache empty, and a list_printers() or get_printer() that
\* follows it through the same manager reads exactly the collection that
\* was persisted.
C23_CacheDroppedAfterWrite ==
    [][/\ (regCalls' = regCalls + 1 /\ RegWrite(regOp') /\ regRet'[1])
            => /\ printers_cache' = <<>>
               /\ LoadPrinters(printers_cache', registry') = registry'
       /\ (/\ regCalls' = regCalls + 1
           /\ RegWrite(regOp) /\ regRet[1]
           /\ regOp'.op \in {"list", "compat"}
           /\ regVia' = regVia)
            => /\ registry' = registry
               /\ printers_cache' = <<registry>>]_vars

\* list_printers() right after a successful add_printer
C23_Witness ==
    /\ regCalls = 2
    /\ regOp.op = "list"
    /\ \E i \in 1..Len(registry) : registry[i].id = "lab_2-b"
    /\ printers_cache = <<registry>>


-----------------------------------------------------------------------------
(* The two size lists of a persisted printer, checked under SpecRegistry.  *)

AddOrUpdateDone == regOp.op \in {"add", "update"} /\ regRet[1]

\* C24: after successful add_printer and update_printer calls every
\* persisted printer has a non-empty supported_sizes list, and an
\* update_printer whose supported_sizes holds no valid size string or size
\* dict is rejected and persists nothing.
C24_SizesNeverEmpty ==
    /\ AddOrUpdateDone
         => \A i \in 1..Len(registry) : registry[i].supported_sizes # <<>>
    /\ (/\ regOp.op = "update"
        /\ Has(regOp.data, "supported_sizes")
        /\ regOp.data.supported_sizes.islist
        /\ \A i \in 1..Len(regOp.data.supported_sizes.items) :
              regOp.data.supported_sizes.items[i] \in {"junk", NotStrOrDict})
         => ~regRet[1] /\ registry = regBefore

\* the legacy string and the structured entry are the same lengths
SameSize(legacy, entry) ==
    LET p == ParseSize(legacy)
    IN  /\ p.ok
        /\ ToInches(p.width, p.unit) = ToInches(entry.width, entry.unit)
        /\ ToInches(p.height, p.unit) = ToInches(entry.height, entry.unit)

InSync(p) ==
    /\ Has(p, "supported_sizes_v2")
    /\ Len(p.supported_sizes) = Len(p.supported_sizes_v2)
    /\ \A i \in 1..Len(p.supported_sizes) :
          SameSize(p.supported_sizes[i], p.supported_sizes_v2[i])

\* C25: the printer persisted by an add_printer, or by an update_printer
\* that supplies supported_sizes, has supported_sizes and
\* supported_sizes_v2 of the same length, the i-th legacy string denoting
\* the same physical size as the i-th structured entry.
C25_SizeListsInSync ==
    (/\ AddOrUpdateDone
     /\ Has(regOp.data, "supported_sizes"))
        => \A i \in 1..Len(registry) :
              registry[i].id = regOp.id => InSync(registry[i])


-----------------------------------------------------------------------------
(* Get-then-update of a template, checked under SpecTemplate.              *)

\* the lines that open a metadata header
HeaderStarts(text) ==
    {i \in DOMAIN text : IsFX(text[i]) /\ MentionsMetadata(text[i])}

\* the header ends with the first empty line
HeaderLen(text) == MinOf({i \in DOMAIN text : text[i] = <<>>})

BodyLines(text) == SubSeq(text, HeaderLen(text) + 1, Len(text))

\* update_template was given the stored text of a template that has a header
Resaved ==
    /\ tplOp.op = "update"
    /\ tplOp.name \in {"t1.zpl.j2", "t2.zpl.j2"}
    /\ tplOp.content = tplBefore[tplOp.name]
    /\ Cardinality(HeaderStarts(tplOp.content)) = 1
    /\ tplRet.raised = "none"

\* C26: after update_template called with the content get_template
\* returned, the stored content has exactly one 'Template Metadata' header,
\* holding only the new metadata values, and its non-header lines are the
\* lines the content had after its header, in the same order, nothing
\* added or lost.
C26_ResaveKeepsBody ==
    Resaved =>
        LET stored == template_files[tplOp.name]
            header == HeaderLines([modified |-> "now"] @@ tplOp.metadata)
        IN  /\ Cardinality(HeaderStarts(stored)) = 1
            /\ SubSeq(stored, 1, HeaderLen(stored)) = header
            /\ BodyLines(stored) = BodyLines(tplOp.content)


-----------------------------------------------------------------------------
(* Error classification of send_zpl and test_printer_connection, checked   *)
(* under SpecSend.                                                         *)

CallReturned == pc = "done" /\ caller \in {"direct", "test"}

TimedOut == ~ret[1] /\ ret[2][1] = "Connection timed out"

FailedOtherwise ==
    /\ ~ret[1]
    /\ ret[2][1] \in {"Failed to connect", "Unexpected error sending ZPL",
                      "Unexpected error testing connection"}

\* C27 as stated: in send_zpl and test_printer_connection a socket timeout
\* always gives a failure with the timed-out message and a refused or other
\* socket error always gives a failure with another classification; none is
\* reported as success.
C27_EverySocketErrorFails ==
    CallReturned =>
        \A x \in sockErrs :
            IF x[2] = "timeout" THEN TimedOut ELSE FailedOtherwise

\* the calls whose exception reaches the except clauses
FatalStages == {"socket", "settimeout", "connect", "sendall"}

\* C27: a socket timeout raised by connect or sendall gives a failure with
\* the timed-out message, a refused or other socket error raised by
\* socket(), settimeout, connect or sendall gives a failure with another
\* classification, and so none of them is reported as success; an error of
\* shutdown(SHUT_WR) is set aside and does not change the result.
C27_SocketErrorsClassified ==
    CallReturned =>
        /\ \A x \in sockErrs :
              x[1] \in FatalStages =>
                  IF x[2] = "timeout" THEN TimedOut ELSE FailedOtherwise
        /\ ret[1] => \A x \in sockErrs : x[1] = "shutdown"
        /\ ret = sendRet

\* the second copy timed out in sendall after the first went through
C27_Witness ==
    /\ CallReturned /\ caller = "direct"
    /\ <<"sendall", "timeout">> \in sockErrs
    /\ errorCopy = 2
    /\ TimedOut


-----------------------------------------------------------------------------
(* Socket lifetime in send_zpl, checked under SpecSend.                    *)

\* C28: every socket send_zpl created is closed before it returns, on the
\* success path and on every error path (an error at settimeout, connect,
\* sendall or shutdown): when the call has returned no socket is open.
C28_NoSocketLeftOpen ==
    (caller = "direct" /\ pc \in {"send_ret", "done"}) => sockOpen = 0

\* a call that failed in its second copy, after a shutdown error in the first
C28_Witness ==
    /\ SendReturned /\ ~ret[1]
    /\ socksCreated = 2
    /\ <<"shutdown", "oserror">> \in sockErrs
    /\ <<"connect", "refused">> \in sockErrs
    /\ sockOpen = 0


-----------------------------------------------------------------------------
(* Ids in the history store, checked under SpecHist.                       *)

EntryIdsOf(entries) == {entries[i].id : i \in 1..Len(entries)}

\* C29: no two entries of the history store share an id, also when callers
\* of add_entry supply their own ids.
C29_HistoryIdsUnique == Cardinality(EntryIdsOf(history)) = Len(history)


-----------------------------------------------------------------------------
(* The status a job ends with and logs, checked under Spec.                *)

EntryWritten == JobDone /\ addRet = <<TRUE>>

LastEntry == history[Len(history)]

\* C30: the history entry execute() writes has status 'success' or
\* 'failed', never 'pending', and an empty error_message exactly when the
\* status is 'success'; the pair execute() returns agrees with the status
\* of the job, also when the history entry could not be written.
C30_StatusAgrees ==
    /\ EntryWritten
         => /\ LastEntry.id = job.job_id
            /\ LastEntry.status \in {"success", "failed"}
            /\ (LastEntry.error_message = NoMsg) <=> (LastEntry.status = "success")
            /\ ret[1] <=> (LastEntry.status = "success")
    /\ JobDone
         => /\ job.status \in {"success", "failed"}
            /\ ret[1] <=> (job.status = "success")
            /\ (job.error_message = NoMsg) <=> (job.status = "success")
            /\ ~ret[1] => ret[2] = job.error_message

\* a job that was printed and whose history entry was written
C30_Witness ==
    /\ EntryWritten
    /\ LastEntry.status = "success"
    /\ ret[1]

\* a failed job whose history entry could not be written
C30_WriteFailed ==
    /\ JobDone /\ addRet = <<FALSE>>
    /\ ~ret[1] /\ job.status = "failed"

====
